---- MODULE Spec2Model ----
(***************************************************************************)
(* A model of the claude-code-api gateway core:                            *)
(*   - ClaudeProcess / ClaudeManager  (core/claude_manager.py)             *)
(*   - OpenAIStreamConverter          (utils/streaming.py)                 *)
(*   - SessionManager                 (core/session_manager.py)            *)
(*   - DatabaseManager                (core/database.py)                   *)
(* Text is a tuple of one-character strings so that strip() can be         *)
(* computed; a stdout line is a tagged record on which json.loads is       *)
(* computed (valid object, valid non-object, not JSON, blank).             *)
(***************************************************************************)
EXTENDS Integers, Sequences, FiniteSets, TLC

VARIABLES processes, call, conv, active_sessions, db, db_messages, now, ended, last,
          handles, stopper, agg, parser, conc, facade, auth,
          conversations, streaming, chunks, adaptive

vars ==
    <<processes, call, conv, active_sessions, db, db_messages, now, ended, last,
      handles, stopper, agg, parser, conc, facade, auth,
      conversations, streaming, chunks, adaptive>>

\* the request handling in front of the core
frontVars == <<facade, auth>>

\* the arguments and results of the functions checked on their own
\* the components beside the request path
streamVars == <<streaming, chunks, adaptive>>

sideVars == <<conversations, streamVars>>

utilVars == <<agg, parser, conc, frontVars, sideVars>>

\* the ClaudeProcess objects the registry refers to, and the calls of stop_session
stopVars == <<handles, stopper>>

supervisorVars == <<processes, call, conv, stopVars, utilVars>>

sessionVars == <<active_sessions, db, db_messages, now, ended, last>>

(***************************************************************************)
(* Settings and bounds of the model.                                       *)
(***************************************************************************)
\* settings.max_concurrent_sessions as read by ClaudeManager.__init__
max_concurrent == 2

\* longest stdout (in lines) of one invocation in the end-to-end runs
MaxLines == 3

\* longest stdout (in JSON lines) of one invocation in the translator runs
MaxEvents == 6

\* the clock stops advancing here
MaxTime == 2

\* settings.session_timeout_minutes, in clock ticks
session_timeout == 1

\* most updates the store records, over all sessions
MaxUpdates == 1

\* longest message list given to create_non_streaming_response
MaxMessages == 3

\* most calls of parse_line on one parser
MaxParses == 3

(***************************************************************************)
(* Text: str.strip()                                                       *)
(***************************************************************************)
Whitespace == {" ", "\n", "\t"}

RECURSIVE LStrip(_)
LStrip(t) ==
    IF t = <<>> THEN <<>>
    ELSE IF Head(t) \in Whitespace THEN LStrip(Tail(t))
    ELSE t

RECURSIVE RStrip(_)
RStrip(t) ==
    IF t = <<>> THEN <<>>
    ELSE IF t[Len(t)] \in Whitespace THEN RStrip(SubSeq(t, 1, Len(t) - 1))
    ELSE t

Strip(t) == RStrip(LStrip(t))

SeqsUpTo(S, n) == UNION {[1..k -> S] : k \in 0..n}

(***************************************************************************)
(* JSON objects of the backing tool's output.                              *)
(***************************************************************************)
NoContent == [kind |-> "absent", str |-> <<>>, parts |-> <<>>]

StrContent(t) == [kind |-> "str", str |-> t, parts |-> <<>>]

ListContent(ps) == [kind |-> "list", str |-> <<>>, parts |-> ps]

TextPart(t) == [type |-> "text", text |-> t]

NoMessage == [kind |-> "absent", content |-> NoContent]

DictMessage(c) == [kind |-> "dict", content |-> c]

\* "message" present, truthy and not an object (a non-empty string, a number)
NonDictMessage == [kind |-> "nondict", content |-> NoContent]

Obj(type, sid, msg) ==
    [type |-> type, session_id |-> sid, message |-> msg, content |-> <<>>]

NullObj == Obj("", "", NoMessage)

\* {"type": "text", "content": line}
TextEvent(raw) ==
    [type |-> "text", session_id |-> "", message |-> NoMessage, content |-> raw]

(***************************************************************************)
(* Lines of standard output.                                               *)
(***************************************************************************)
JsonLine(obj) == [kind |-> "json", obj |-> obj, raw |-> <<>>]

\* valid JSON that is no object, e.g. 42
ScalarLine == [kind |-> "scalar", obj |-> NullObj, raw |-> <<"4", "2">>]

GarbageLine(raw) == [kind |-> "garbage", obj |-> NullObj, raw |-> raw]

BlankLine == [kind |-> "blank", obj |-> NullObj, raw |-> <<" ">>]

EmptyLine == [kind |-> "blank", obj |-> NullObj, raw |-> <<>>]

LnAsstStr == JsonLine(Obj("assistant", "", DictMessage(StrContent(<<"a">>))))

LnAsstList ==
    JsonLine(Obj("assistant", "",
                 DictMessage(ListContent(<<TextPart(<<"b">>), TextPart(<<"c">>)>>))))

LnSystem == JsonLine(Obj("system", "t1", NoMessage))

LnResult == JsonLine(Obj("result", "t2", NoMessage))

LnBadAsst == JsonLine(Obj("assistant", "", NonDictMessage))

LnGarbage == GarbageLine(<<" ", "x">>)

PipeLines ==
    {LnAsstStr, LnAsstList, LnSystem, LnResult, LnBadAsst, ScalarLine, LnGarbage,
     BlankLine}

StreamLines == {LnAsstStr, LnSystem, LnResult, LnBadAsst}

Stderrs == {<<>>, <<"E", " ">>}

(***************************************************************************)
(* ClaudeProcess                                                           *)
(***************************************************************************)
\* the end signal (None) of a queue
EndSignal == [end |-> TRUE, data |-> NullObj, src |-> 0]

\* a queued output item; src is the index of the output line it was parsed from
Item(data, i) == [end |-> FALSE, data |-> data, src |-> i]

ErrEnd == [end |-> TRUE, text |-> <<>>]

ErrItem(t) == [end |-> FALSE, text |-> t]

NoException == [what |-> "", text |-> <<>>]

Exception(what, text) == [what |-> what, text |-> text]

\* process is self.process ("none" for None, "ref" for a subprocess object); tool
\* is the state of the backing tool behind it: "exits" and "hangs" are a live
\* tool that will, or will never, exit of its own accord
ClaudeProcess(sid) ==
    [session_id |-> sid, is_running |-> FALSE, process |-> "none", tool |-> "none",
     returncode |-> -1,
     stdout |-> <<>>, stderr |-> <<>>, output_lines |-> <<>>,
     output_queue |-> <<>>, error_queue |-> <<>>]

LineBlank(line) == line.kind = "blank"

LStripLine(line) == [line EXCEPT !.raw = LStrip(@)]

RStripLine(line) == [line EXCEPT !.raw = RStrip(@)]

RECURSIVE DropLeadingBlank(_)
DropLeadingBlank(ls) ==
    IF ls = <<>> THEN <<>>
    ELSE IF LineBlank(Head(ls)) THEN DropLeadingBlank(Tail(ls))
    ELSE ls

RECURSIVE DropTrailingBlank(_)
DropTrailingBlank(ls) ==
    IF ls = <<>> THEN <<>>
    ELSE IF LineBlank(ls[Len(ls)]) THEN DropTrailingBlank(SubSeq(ls, 1, Len(ls) - 1))
    ELSE ls

\* stdout.decode().strip().split('\n')
OutputLines(stdout) ==
    LET core == DropTrailingBlank(DropLeadingBlank(stdout)) IN
    IF core = <<>> THEN <<EmptyLine>>
    ELSE LET n == Len(core) IN
         [i \in 1..n |->
            IF i = 1 /\ i = n THEN RStripLine(LStripLine(core[i]))
            ELSE IF i = 1 THEN LStripLine(core[i])
            ELSE IF i = n THEN RStripLine(core[i])
            ELSE core[i]]

\* a put that adds at the head of the queue
QueuePutFront(q, item) == <<item>> \o q

\* output_queue.put
QueuePut(q, item) == Append(q, item)

\* a test that takes the session id of every line that has one
TakesAnySessionId(claude_session_id, data) == data.session_id # ""

\* whether the loop takes the session id of data: none was taken before and
\* data has one
TakesSessionId(claude_session_id, data) ==
    claude_session_id = "" /\ data.session_id # ""

\* the loop over output_lines of ClaudeProcess.start; st.raised is an exception
\* other than JSONDecodeError leaving the loop
RECURSIVE ParseLoop(_, _, _)
ParseLoop(lines, i, st) ==
    IF i > Len(lines) THEN st
    ELSE LET line == lines[i] IN
         IF LineBlank(line) THEN ParseLoop(lines, i + 1, st)
         ELSE IF line.kind = "garbage"
              THEN ParseLoop(lines, i + 1,
                     [st EXCEPT !.queue = QueuePut(@, Item(TextEvent(line.raw), i))])
         ELSE IF line.kind = "scalar"
              THEN [st EXCEPT !.raised = TRUE]
         ELSE LET data == line.obj
                  first == TakesSessionId(st.claude_session_id, data)
              IN  ParseLoop(lines, i + 1,
                     [st EXCEPT
                        !.claude_session_id = IF first THEN data.session_id ELSE @,
                        !.session_id = IF first THEN data.session_id ELSE @,
                        !.queue = QueuePut(@, Item(data, i))])

\* a nonzero exit that still queues what the output parses to
StartFailedKeepsOutput(p, rc, stdout, stderr) ==
    LET st == ParseLoop(OutputLines(stdout), 1,
                [queue |-> p.output_queue, session_id |-> p.session_id,
                 claude_session_id |-> "", raised |-> FALSE])
    IN  [p EXCEPT !.returncode = rc, !.stdout = stdout, !.stderr = stderr,
                  !.output_queue = st.queue,
                  !.error_queue = @ \o <<ErrItem(Strip(stderr)), ErrEnd>>]

\* what a nonzero exit leaves in the process object
StartFailed(p, rc, stdout, stderr) ==
    [p EXCEPT !.returncode = rc, !.stdout = stdout, !.stderr = stderr,
              !.error_queue = @ \o <<ErrItem(Strip(stderr)), ErrEnd>>]

\* ClaudeProcess.start from the return of communicate(): <<process, success>>
StartFinish(p, rc, stdout, stderr) ==
    IF rc = 0
    THEN LET lines == OutputLines(stdout)
             st == ParseLoop(lines, 1,
                     [queue |-> p.output_queue, session_id |-> p.session_id,
                      claude_session_id |-> "", raised |-> FALSE])
             q == [p EXCEPT !.returncode = rc, !.stdout = stdout, !.stderr = stderr,
                            !.output_lines = lines,
                            !.session_id = st.session_id,
                            !.output_queue = st.queue]
         IN  IF st.raised THEN <<q, FALSE>>
             ELSE <<[q EXCEPT !.output_queue = QueuePut(@, EndSignal),
                              !.is_running = FALSE], TRUE>>
    ELSE <<StartFailed(p, rc, stdout, stderr), FALSE>>

(***************************************************************************)
(* ClaudeManager                                                           *)
(***************************************************************************)
SessionIds == {"s1", "s2"}

IdleCall ==
    [pc |-> "idle", session_id |-> "", process |-> ClaudeProcess(""),
     error |-> NoException]

Callers == DOMAIN call

\* the concurrent-session check of create_session
LimitReached == Cardinality(DOMAIN processes) >= max_concurrent

\* the error create_session raises when start returns False
StartError(p) == Exception("Failed to start Claude process", <<>>)

\* create_session up to its first suspension: the limit check, the process
\* object and the spawn of the backing tool (which may fail: start returns False)
create_session_begin(c, sid, spawned, tool) ==
    /\ call[c].pc = "idle"
    /\ call' = [call EXCEPT ![c] =
         IF LimitReached
         THEN [@ EXCEPT !.pc = "raised", !.session_id = sid,
                        !.error = Exception("Maximum concurrent sessions reached", <<>>)]
         ELSE IF ~spawned
         THEN [@ EXCEPT !.pc = "raised", !.session_id = sid,
                        !.process = ClaudeProcess(sid),
                        !.error = StartError(ClaudeProcess(sid))]
         ELSE [@ EXCEPT !.pc = "running", !.session_id = sid,
                        !.process = [ClaudeProcess(sid) EXCEPT !.process = "ref",
                                                               !.tool = tool]]]
    /\ UNCHANGED <<processes, conv, stopVars, utilVars, sessionVars>>

\* the backing tool of caller c has been spawned and has not exited
Running(c) == call[c].pc = "running"

\* the backing tool exits: start parses the buffered output and create_session
\* returns the process or raises
create_session_finish(c, rc, stdout, stderr) ==
    /\ Running(c)
    /\ call[c].process.tool = "exits"
    /\ LET r == StartFinish([call[c].process EXCEPT !.tool = "exited"],
                            rc, stdout, stderr) IN
       call' = [call EXCEPT ![c] =
         IF r[2]
         THEN [@ EXCEPT !.pc = "returned", !.process = r[1]]
         ELSE [@ EXCEPT !.pc = "raised", !.process = r[1],
                        !.error = StartError(r[1])]]
    /\ UNCHANGED <<processes, conv, stopVars, utilVars, sessionVars>>

InFlight == {c \in Callers : Running(c)}

(***************************************************************************)
(* ClaudeProcess.get_output and OpenAIStreamConverter.convert_stream       *)
(***************************************************************************)
max_chunks == 5

\* one emitted protocol unit; src is the output line a content chunk came from
Unit(kind, text, src) == [kind |-> kind, text |-> text, src |-> src]

\* {"delta": {"role": "assistant", "content": ""}, "finish_reason": null}
InitialChunk == Unit("open", <<>>, 0)

\* {"delta": {"content": text}, "finish_reason": null}
ContentChunk(text, src) == Unit("content", text, src)

\* {"delta": {}, "finish_reason": "stop"}
FinalChunk == Unit("close", <<>>, 0)

\* data: [DONE]
DoneSentinel == Unit("done", <<>>, 0)

\* SSEFormatter.format_error: {"error": {..., "code": "stream_error"}}
ErrorChunk == Unit("error", <<>>, 0)

InitConv ==
    [pc |-> "init", chunk_count |-> 0, out |-> <<>>, delivered |-> <<>>,
     swallowed |-> 0, timed_out |-> FALSE]

\* Python truthiness of message.get("content")
ContentTruthy(content) ==
    \/ content.kind = "str" /\ content.str # <<>>
    \/ content.kind = "list" /\ content.parts # <<>>

\* the text of the first part with type "text" and a non-empty text, else ""
RECURSIVE FirstText(_)
FirstText(parts) ==
    IF parts = <<>> THEN <<>>
    ELSE IF Head(parts).type = "text" /\ Head(parts).text # <<>>
         THEN Head(parts).text
         ELSE FirstText(Tail(parts))

\* text_content of an assistant message with truthy content
TextContent(content) ==
    IF content.kind = "list" THEN FirstText(content.parts)
    ELSE IF content.kind = "str" THEN content.str
    ELSE <<>>

\* a loop body without its own handler: the exception of a message whose
\* "message" is no object escapes
ConvertMessageUncaught(data) ==
    IF data.type = "assistant" /\ data.message.kind = "nondict"
    THEN [raised |-> TRUE, escaped |-> TRUE, emit |-> FALSE, text |-> <<>>,
          stop |-> FALSE]
    ELSE LET hasContent == /\ data.type = "assistant"
                           /\ data.message.kind = "dict"
                           /\ ContentTruthy(data.message.content)
             text == IF hasContent THEN TextContent(data.message.content) ELSE <<>>
         IN  [raised |-> FALSE,
              escaped |-> FALSE,
              emit |-> hasContent /\ Strip(text) # <<>>,
              text |-> text,
              stop |-> data.type = "result"]

\* the body of the loop of convert_stream for one message: whether it raised
\* (caught by the handler inside the loop: logged, continue), whether an
\* exception escaped that handler, the content chunk it yields, and whether it
\* breaks
ConvertMessage(data) ==
    IF data.type = "assistant" /\ data.message.kind = "nondict"
    THEN [raised |-> TRUE, escaped |-> FALSE, emit |-> FALSE, text |-> <<>>,
          stop |-> FALSE]
    ELSE LET hasContent == /\ data.type = "assistant"
                           /\ data.message.kind = "dict"
                           /\ ContentTruthy(data.message.content)
             text == IF hasContent THEN TextContent(data.message.content) ELSE <<>>
         IN  [raised |-> FALSE,
              escaped |-> FALSE,
              emit |-> hasContent /\ Strip(text) # <<>>,
              text |-> text,
              stop |-> data.type = "result"]

\* a limit check that lets one more message through
OverLimitOffByOne(count) == count > max_chunks + 1

\* whether the loop of convert_stream stops on the count after incrementing it
OverLimit(count) == count > max_chunks

\* the texts of the content deltas convert_stream yields for these messages, in
\* order: each message is counted, the loop stops over the limit, a message
\* that raises is skipped, and a result ends the loop
RECURSIVE DeltaTexts(_, _)
DeltaTexts(messages, chunk_count) ==
    IF messages = <<>> \/ OverLimit(chunk_count + 1) THEN <<>>
    ELSE LET r == ConvertMessage(Head(messages)) IN
         (IF r.emit THEN <<r.text>> ELSE <<>>)
           \o (IF r.stop THEN <<>>
               ELSE DeltaTexts(Tail(messages), chunk_count + 1))

\* output_queue.get
QueueGet(q) == <<Head(q), Tail(q)>>

\* convert_stream up to its first yield
convert_open(c) ==
    /\ call[c].pc = "returned"
    /\ conv.pc = "init"
    /\ conv' = [conv EXCEPT !.pc = "loop", !.out = Append(@, InitialChunk)]
    /\ UNCHANGED <<processes, call, stopVars, utilVars, sessionVars>>

\* one turn of the loop: get_output takes the next item; the end signal ends
\* the loop; a message is counted, then converted unless over the limit; an
\* exception escaping the loop is answered by one error chunk and the generator
\* ends
convert_next(c) ==
    /\ conv.pc = "loop"
    /\ call[c].pc = "returned"
    /\ call[c].process.output_queue # <<>>
    /\ LET g == QueueGet(call[c].process.output_queue)
           item == g[1]
           count == conv.chunk_count + 1
           m == ConvertMessage(item.data)
       IN  /\ call' = [call EXCEPT ![c].process.output_queue = g[2]]
           /\ conv' =
                IF item.end THEN [conv EXCEPT !.pc = "final"]
                ELSE IF OverLimit(count)
                THEN [conv EXCEPT !.pc = "final", !.chunk_count = count,
                                  !.delivered = Append(@, item.src)]
                ELSE IF m.escaped
                THEN [conv EXCEPT !.pc = "end", !.chunk_count = count,
                                  !.delivered = Append(@, item.src),
                                  !.out = Append(@, ErrorChunk)]
                ELSE [conv EXCEPT
                        !.chunk_count = count,
                        !.delivered = Append(@, item.src),
                        !.swallowed = IF m.raised THEN @ + 1 ELSE @,
                        !.out = IF m.emit THEN Append(@, ContentChunk(m.text, item.src))
                                ELSE @,
                        !.pc = IF m.stop THEN "final" ELSE @]
    /\ UNCHANGED <<processes, stopVars, utilVars, sessionVars>>

\* wait_for gives up on the queue: get_output logs "Output timeout" and ends
get_output_timeout(c) ==
    /\ conv.pc = "loop"
    /\ call[c].pc = "returned"
    /\ conv' = [conv EXCEPT !.pc = "final", !.timed_out = TRUE]
    /\ UNCHANGED <<processes, call, stopVars, utilVars, sessionVars>>

\* the final chunk
convert_final ==
    /\ conv.pc = "final"
    /\ conv' = [conv EXCEPT !.pc = "sentinel", !.out = Append(@, FinalChunk)]
    /\ UNCHANGED <<processes, call, stopVars, utilVars, sessionVars>>

\* the completion signal; the generator is exhausted
convert_done ==
    /\ conv.pc = "sentinel"
    /\ conv' = [conv EXCEPT !.pc = "end", !.out = Append(@, DoneSentinel)]
    /\ UNCHANGED <<processes, call, stopVars, utilVars, sessionVars>>

(***************************************************************************)
(* SessionManager over DatabaseManager                                     *)
(***************************************************************************)
Models == {"m1"}

\* SessionInfo.__init__ at time t
SessionInfo(model, t) ==
    [model |-> model, created_at |-> t, updated_at |-> t, message_count |-> 0,
     total_tokens |-> 0, total_cost |-> 0, is_active |-> TRUE]

\* the row DatabaseManager.create_session inserts (column defaults included)
SessionRow(model, t) ==
    [model |-> model, created_at |-> t, updated_at |-> t, message_count |-> 0,
     total_tokens |-> 0, total_cost |-> 0, is_active |-> TRUE]

\* a SessionInfo rebuilt from a row without the row's counters
RehydrateFresh(row) ==
    [model |-> row.model, created_at |-> row.created_at, updated_at |-> row.updated_at,
     message_count |-> 0, total_tokens |-> 0, total_cost |-> 0, is_active |-> TRUE]

\* the SessionInfo get_session rebuilds from a row
Rehydrate(row) ==
    [model |-> row.model, created_at |-> row.created_at, updated_at |-> row.updated_at,
     message_count |-> row.message_count, total_tokens |-> row.total_tokens,
     total_cost |-> row.total_cost, is_active |-> TRUE]

\* d with key k set to v
Put(d, k, v) == [x \in DOMAIN d \cup {k} |-> IF x = k THEN v ELSE d[x]]

\* d without key k
Del(d, k) == [x \in DOMAIN d \ {k} |-> d[x]]

Empty == [x \in {} |-> 0]

RECURSIVE SumOver(_, _, _)
SumOver(d, keys, field) ==
    IF keys = {} THEN 0
    ELSE LET k == CHOOSE x \in keys : TRUE IN
         d[k][field] + SumOver(d, keys \ {k}, field)

\* get_session_stats over an index
StatsOf(index) ==
    [active_sessions |-> Cardinality(DOMAIN index),
     total_tokens |-> SumOver(index, DOMAIN index, "total_tokens"),
     total_cost |-> SumOver(index, DOMAIN index, "total_cost"),
     total_messages |-> SumOver(index, DOMAIN index, "message_count"),
     models_in_use |-> {index[id].model : id \in DOMAIN index}]

get_session_stats == StatsOf(active_sessions)

NoStats == StatsOf(Empty)

\* no SessionInfo (None)
NoRecord ==
    [model |-> "", created_at |-> 0, updated_at |-> 0, message_count |-> 0,
     total_tokens |-> 0, total_cost |-> 0, is_active |-> FALSE]

\* no arguments of update_session
NoArgs == [tokens |-> 0, cost |-> 0, content |-> <<>>]

\* the record of the last SessionManager operation: its result, and for a
\* sweep the sessions that were idle past the timeout when it ran and the
\* statistics of the others; rec is the SessionInfo a get or an update
\* resolved, args the arguments of an update
Last(op, id, ret, stale, expect) ==
    [op |-> op, id |-> id, ret |-> ret, stale |-> stale, expect |-> expect,
     rec |-> NoRecord, args |-> NoArgs]

\* whether db_session is found and marked active
RowActive(id) == id \in DOMAIN db /\ db[id].is_active

\* the index after get_session(id)
IndexAfterGet(id) ==
    IF id \in DOMAIN active_sessions THEN active_sessions
    ELSE IF RowActive(id) THEN Put(active_sessions, id, Rehydrate(db[id]))
    ELSE active_sessions

\* the SessionInfo get_session(id) returns
GetRecord(id) ==
    IF id \in DOMAIN active_sessions THEN active_sessions[id]
    ELSE IF RowActive(id) THEN Rehydrate(db[id])
    ELSE NoRecord

\* how get_session(id) came to what it returns
GetResult(id) ==
    IF id \in DOMAIN active_sessions THEN "hit"
    ELSE IF RowActive(id) THEN "rehydrated"
    ELSE "null"

\* whether DatabaseManager.create_session commits the row: id is the primary
\* key of the sessions table, and the commit of a second row for it raises
Persists(id) == id \notin DOMAIN db

\* create_session: the index is written first, then the row is persisted; an
\* error of the store leaves create_session as it is raised
sm_create_session(id, model) ==
    /\ active_sessions' = Put(active_sessions, id, SessionInfo(model, now))
    /\ db' = IF Persists(id) THEN Put(db, id, SessionRow(model, now))
             ELSE db
    /\ ended' = ended \ {id}
    /\ last' = Last("create", id,
                    IF Persists(id) THEN "ok" ELSE "raised", {}, NoStats)
    /\ UNCHANGED <<db_messages, now, supervisorVars>>

sm_get_session(id) ==
    /\ active_sessions' = IndexAfterGet(id)
    /\ last' = [Last("get", id, GetResult(id), {}, NoStats)
                  EXCEPT !.rec = GetRecord(id)]
    /\ UNCHANGED <<db, db_messages, now, ended, supervisorVars>>

\* DatabaseManager.update_session_metrics
UpdateMetrics(rows, id, tokens, cost, t) ==
    IF id \in DOMAIN rows
    THEN [rows EXCEPT ![id].total_tokens = @ + tokens,
                      ![id].total_cost = @ + cost,
                      ![id].message_count = @ + 1,
                      ![id].updated_at = t]
    ELSE rows

\* the in-memory part of update_session on a resolved session
UpdateInfo(info, tokens, cost, content, t) ==
    [info EXCEPT !.updated_at = t,
                 !.total_tokens = @ + tokens,
                 !.total_cost = @ + cost,
                 !.message_count = IF content # <<>> THEN @ + 1 ELSE @]

\* the counters of the store and of the index are below the bound
RoomForUpdate ==
    /\ SumOver(db, DOMAIN db, "message_count") < MaxUpdates
    /\ SumOver(active_sessions, DOMAIN active_sessions, "message_count") < MaxUpdates
    /\ SumOver(active_sessions, DOMAIN active_sessions, "total_tokens") < MaxUpdates
    /\ SumOver([id \in SessionIds |-> [turns |-> db_messages[id]]],
               SessionIds, "turns") < MaxUpdates

\* update_session on the state of the SessionManager and of the store
UpdateSession(id, tokens, cost, content) ==
    /\ LET index == IndexAfterGet(id) IN
       IF id \notin DOMAIN index
       THEN /\ last' = [Last("update", id, "null", {}, NoStats)
                          EXCEPT !.args = [tokens |-> tokens, cost |-> cost,
                                           content |-> content]]
            /\ UNCHANGED <<active_sessions, db, db_messages>>
       ELSE /\ active_sessions' =
                 [index EXCEPT ![id] = UpdateInfo(@, tokens, cost, content, now)]
            /\ db_messages' = IF content # <<>>
                              THEN [db_messages EXCEPT ![id] = @ + 1]
                              ELSE db_messages
            /\ db' = UpdateMetrics(db, id, tokens, cost, now)
            /\ last' = [Last("update", id, GetResult(id), {}, NoStats)
                          EXCEPT !.rec = GetRecord(id),
                                 !.args = [tokens |-> tokens, cost |-> cost,
                                           content |-> content]]
    /\ UNCHANGED <<now, ended>>

sm_update_session(id, tokens, cost, content) ==
    /\ RoomForUpdate
    /\ UpdateSession(id, tokens, cost, content)
    /\ UNCHANGED supervisorVars

\* an end that empties the index when the id is absent
IndexAfterEndClears(index, id) == IF id \in DOMAIN index THEN Del(index, id) ELSE Empty

\* the index after end_session(id)
IndexAfterEnd(index, id) == IF id \in DOMAIN index THEN Del(index, id) ELSE index

\* end_session on the state of the SessionManager
EndSession(id) ==
    /\ active_sessions' = IndexAfterEnd(active_sessions, id)
    /\ ended' = IF id \in DOMAIN active_sessions THEN ended \cup {id} ELSE ended
    /\ last' = Last("end", id,
                    IF id \in DOMAIN active_sessions THEN "ended" ELSE "noop",
                    {}, NoStats)
    /\ UNCHANGED <<db, db_messages, now>>

sm_end_session(id) ==
    /\ EndSession(id)
    /\ UNCHANGED supervisorVars

\* an expiry test that takes a session at the timeout for expired
ExpiredAtTimeout(info, t) == t - info.updated_at >= session_timeout

\* an expiry test that waits one tick longer
ExpiredOffByOne(info, t) == t - info.updated_at > session_timeout + 1

\* whether cleanup_expired_sessions at time t takes a session for expired
Expired(info, t) == t - info.updated_at > session_timeout

\* expired_sessions of cleanup_expired_sessions
ExpiredSessions(index, t) == {id \in DOMAIN index : Expired(index[id], t)}

RECURSIVE EndAll(_, _)
EndAll(index, ids) ==
    IF ids = {} THEN index
    ELSE LET id == CHOOSE x \in ids : TRUE IN
         EndAll(IndexAfterEnd(index, id), ids \ {id})

\* idle past the timeout at time t
Stale(info, t) == info.updated_at + session_timeout < t

\* one cycle of _periodic_cleanup
cleanup_expired_sessions ==
    /\ LET expired == ExpiredSessions(active_sessions, now)
           stale == {id \in DOMAIN active_sessions : Stale(active_sessions[id], now)}
           others == [id \in DOMAIN active_sessions \ stale |-> active_sessions[id]]
       IN  /\ active_sessions' = EndAll(active_sessions, expired)
           /\ ended' = ended \cup expired
           /\ last' = Last("sweep", "", "done", stale, StatsOf(others))
    /\ UNCHANGED <<db, db_messages, now, supervisorVars>>

\* time passes
Tick ==
    /\ now < MaxTime
    /\ now' = now + 1
    /\ UNCHANGED <<active_sessions, db, db_messages, ended, last, supervisorVars>>

(***************************************************************************)
(* SessionManager under concurrent callers: each call is a task of the     *)
(* event loop and runs without interruption from one await to the next     *)
(***************************************************************************)
NumTasks == 2

MaxConcUpdates == 2

Tasks == 1..NumTasks

\* a task that runs no call
IdleTask == [pc |-> "idle", op |-> "none", id |-> "", tokens |-> 0, cost |-> 0,
             row |-> NoRecord]

\* no increment
NoIncrement == [tokens |-> 0, cost |-> 0]

\* task: the calls in flight; applied: per id, the sum of the increments the
\* update calls have added to a record of the id; calls: the update calls begun
IdleConc ==
    [task |-> [t \in Tasks |-> IdleTask],
     applied |-> [id \in SessionIds |-> NoIncrement],
     calls |-> 0]

\* applied with one more increment for id
Applied(id, tokens, cost) ==
    [conc.applied EXCEPT ![id] = [tokens |-> @.tokens + tokens, cost |-> @.cost + cost]]

\* get_session up to its first await: a hit returns the record at once, a miss
\* awaits db_manager.get_session
conc_get_begin(t, id) ==
    /\ conc.task[t].pc = "idle"
    /\ conc' = IF id \in DOMAIN active_sessions THEN conc
                ELSE [conc EXCEPT !.task[t] =
                        [IdleTask EXCEPT !.pc = "loading", !.op = "get", !.id = id]]
    /\ UNCHANGED <<agg, parser, frontVars, sideVars, processes, call, conv, stopVars, sessionVars>>

\* update_session, called without message content, up to its first await: on
\* a hit get_session returns without yielding and the record is updated in
\* the same run, up to the await of update_session_metrics
conc_update_begin(t, id, tokens, cost) ==
    /\ conc.task[t].pc = "idle"
    /\ conc.calls < MaxConcUpdates
    /\ IF id \in DOMAIN active_sessions
       THEN /\ active_sessions' =
                 [active_sessions EXCEPT ![id] = UpdateInfo(@, tokens, cost, <<>>, now)]
            /\ conc' = [conc EXCEPT
                          !.task[t] = [IdleTask EXCEPT !.pc = "persist", !.op = "update",
                                                       !.id = id, !.tokens = tokens,
                                                       !.cost = cost],
                          !.applied = Applied(id, tokens, cost),
                          !.calls = @ + 1]
       ELSE /\ conc' = [conc EXCEPT
                          !.task[t] = [IdleTask EXCEPT !.pc = "loading", !.op = "update",
                                                       !.id = id, !.tokens = tokens,
                                                       !.cost = cost],
                          !.calls = @ + 1]
            /\ UNCHANGED active_sessions
    /\ UNCHANGED <<agg, parser, frontVars, sideVars, processes, call, conv, stopVars,
                   db, db_messages, now, ended, last>>

\* DatabaseManager.get_session reads the row while the caller is suspended
conc_load(t) ==
    /\ conc.task[t].pc = "loading"
    /\ conc' = [conc EXCEPT !.task[t].pc = "loaded",
                            !.task[t].row = IF conc.task[t].id \in DOMAIN db
                                            THEN db[conc.task[t].id] ELSE NoRecord]
    /\ UNCHANGED <<agg, parser, frontVars, sideVars, processes, call, conv, stopVars, sessionVars>>

\* the caller resumes with the row: get_session stores the SessionInfo it
\* builds from an active row in the index; update_session goes on, in the same
\* run, to add its increment to that SessionInfo
conc_resume(t) ==
    /\ conc.task[t].pc = "loaded"
    /\ LET task == conc.task[t]
           info == Rehydrate(task.row)
       IN  IF ~task.row.is_active
           THEN /\ conc' = [conc EXCEPT !.task[t] = IdleTask]
                /\ UNCHANGED active_sessions
           ELSE IF task.op = "get"
           THEN /\ active_sessions' = Put(active_sessions, task.id, info)
                /\ conc' = [conc EXCEPT !.task[t] = IdleTask]
           ELSE /\ active_sessions' =
                     Put(active_sessions, task.id,
                         UpdateInfo(info, task.tokens, task.cost, <<>>, now))
                /\ conc' = [conc EXCEPT
                              !.task[t].pc = "persist",
                              !.applied = Applied(task.id, task.tokens, task.cost)]
    /\ UNCHANGED <<agg, parser, frontVars, sideVars, processes, call, conv, stopVars,
                   db, db_messages, now, ended, last>>

\* update_session_metrics commits the increment to the row; update_session
\* returns
conc_persist(t) ==
    /\ conc.task[t].pc = "persist"
    /\ db' = UpdateMetrics(db, conc.task[t].id, conc.task[t].tokens,
                            conc.task[t].cost, now)
    /\ conc' = [conc EXCEPT !.task[t] = IdleTask]
    /\ UNCHANGED <<agg, parser, frontVars, sideVars, processes, call, conv, stopVars,
                   active_sessions, db_messages, now, ended, last>>

(***************************************************************************)
(* ConversationManager                                                     *)
(***************************************************************************)
MaxTurns == 3

\* no limit given to get_conversation_history
NoLimit == [given |-> FALSE, n |-> 0]

Limit(n) == [given |-> TRUE, n |-> n]

\* conversation_history is empty; added is, per session id, the messages
\* add_message was called with since the last clear, in call order; op, sid,
\* limit and result record the last call
IdleConversations ==
    [conversation_history |-> Empty, added |-> [sid \in SessionIds |-> <<>>],
     op |-> "none", sid |-> "", limit |-> NoLimit, result |-> <<>>]

\* the message add_message builds
Turn(role, content, t) == [role |-> role, content |-> content, timestamp |-> t]

\* conversation_history.get(session_id, [])
History(sid) ==
    IF sid \in DOMAIN conversations.conversation_history
    THEN conversations.conversation_history[sid] ELSE <<>>

\* history[-n:] for n >= 1
LastTurns(history, n) ==
    IF n >= Len(history) THEN history
    ELSE SubSeq(history, Len(history) - n + 1, Len(history))

\* a message put in front of the list
InsertTurn(history, message) == <<message>> \o history

\* conversation_history[session_id].append(message)
AppendTurn(history, message) == Append(history, message)

\* the turns kept in all histories
TotalTurns ==
    SumOver([sid \in SessionIds |-> [turns |-> Len(History(sid))]], SessionIds, "turns")

\* add_message: the message is appended, then the session is updated with the
\* content and no tokens or cost
add_message(sid, role, content) ==
    /\ TotalTurns < MaxTurns
    /\ GetResult(sid) # "null" => RoomForUpdate
    /\ conversations' =
         [conversations EXCEPT
            !.conversation_history =
                Put(@, sid, AppendTurn(History(sid), Turn(role, content, now))),
            !.added[sid] = Append(@, Turn(role, content, now)),
            !.op = "add", !.sid = sid, !.limit = NoLimit, !.result = <<>>]
    /\ UpdateSession(sid, 0, 0, content)
    /\ UNCHANGED <<agg, parser, conc, frontVars, processes, call, conv, stopVars,
                   streamVars>>

\* get_conversation_history: the last limit messages when limit is truthy,
\* else the whole history
get_conversation_history(sid, limit) ==
    /\ conversations' =
         [conversations EXCEPT
            !.op = "get", !.sid = sid, !.limit = limit,
            !.result = IF limit.given /\ limit.n # 0
                       THEN LastTurns(History(sid), limit.n)
                       ELSE History(sid)]
    /\ UNCHANGED <<agg, parser, conc, frontVars, processes, call, conv, stopVars,
                   streamVars, sessionVars>>

\* clear_conversation: the history of the session is deleted and the session
\* ended
clear_conversation(sid) ==
    /\ conversations' =
         [conversations EXCEPT
            !.conversation_history = IF sid \in DOMAIN @ THEN Del(@, sid) ELSE @,
            !.added[sid] = <<>>,
            !.op = "clear", !.sid = sid, !.limit = NoLimit, !.result = <<>>]
    /\ EndSession(sid)
    /\ UNCHANGED <<agg, parser, conc, frontVars, processes, call, conv, stopVars,
                   streamVars>>

(***************************************************************************)
(* StreamingManager: the registry of active streams                        *)
(***************************************************************************)
\* the variables no component beside the request path writes
pathVars ==
    <<agg, parser, conc, frontVars, processes, call, conv, stopVars, sessionVars>>

\* the runs of create_stream
NumStreams == 2

Streams == 1..NumStreams

\* a run of create_stream: where its generator stands, the session id it was
\* given, and its heartbeat task
IdleStream == [pc |-> "idle", session_id |-> "", heartbeat |-> "none"]

\* active_streams maps a session id to the converter of a run, named by the run
IdleStreaming ==
    [active_streams |-> Empty, stream |-> [g \in Streams |-> IdleStream]]

\* the runs whose generator has started and not ended
InProgress == {g \in Streams : streaming.stream[g].pc = "streaming"}

\* len(self.active_streams)
get_active_stream_count == Cardinality(DOMAIN streaming.active_streams)

\* the finally clause of create_stream
Cleanup(active, sid) == IF sid \in DOMAIN active THEN Del(active, sid) ELSE active

\* create_stream up to its first suspension: the converter is stored under the
\* session id and the heartbeat task created
create_stream_begin(g, sid) ==
    /\ streaming.stream[g].pc # "streaming"
    /\ streaming.stream[g].heartbeat # "sleeping"
    /\ streaming' =
         [streaming EXCEPT
            !.active_streams = Put(@, sid, g),
            !.stream[g] = [pc |-> "streaming", session_id |-> sid,
                           heartbeat |-> "sleeping"]]
    /\ UNCHANGED <<pathVars, conversations, chunks, adaptive>>

\* how a run of the generator ends: convert_stream is exhausted, an exception
\* is answered by an error event, or the consumer closes the generator
StreamOutcomes == {"finished", "failed", "closed"}

\* the end of create_stream: the heartbeat is cancelled on the normal path
\* only, and the finally clause deletes the entry of the session id
create_stream_finish(g, outcome) ==
    /\ streaming.stream[g].pc = "streaming"
    /\ streaming' =
         [streaming EXCEPT
            !.active_streams = Cleanup(@, streaming.stream[g].session_id),
            !.stream[g].pc = outcome,
            !.stream[g].heartbeat = IF outcome = "finished" THEN "cancelled" ELSE @]
    /\ UNCHANGED <<pathVars, conversations, chunks, adaptive>>

\* _send_heartbeats after a sleep: the loop goes on while the session id is
\* registered
send_heartbeats(g) ==
    /\ streaming.stream[g].heartbeat = "sleeping"
    /\ streaming' =
         [streaming EXCEPT
            !.stream[g].heartbeat =
                IF streaming.stream[g].session_id \in DOMAIN streaming.active_streams
                THEN "sleeping" ELSE "ended"]
    /\ UNCHANGED <<pathVars, conversations, chunks, adaptive>>

(***************************************************************************)
(* ChunkBuffer                                                             *)
(***************************************************************************)
\* ChunkBuffer(max_size)
max_size == 1

\* the tasks that call add_chunk
NumAdders == 2

\* the chunks given to add_chunk, numbered in the order of the calls
MaxChunks == 3

Adders == 1..NumAdders

\* the task that iterates get_chunks, as a waiter of the lock
Consumer == 0

\* asyncio.Lock: whether it is held, the tasks waiting for it in the order of
\* their calls, and whether the future of the first of them has been set
FreeLock == [locked |-> FALSE, waiters |-> <<>>, woken |-> FALSE]

\* the fast path of Lock.acquire: the lock is free and nobody waits for it
CanAcquire(lock) == ~lock.locked /\ lock.waiters = <<>>

\* the slow path of Lock.acquire: the caller joins the waiters
Enqueue(lock, task) == [lock EXCEPT !.waiters = Append(@, task)]

\* a woken waiter leaves the waiters and holds the lock
Acquired(lock) == [lock EXCEPT !.locked = TRUE, !.waiters = Tail(@), !.woken = FALSE]

\* a release that wakes nobody
ReleaseNoWake(lock) == [lock EXCEPT !.locked = FALSE]

\* Lock.release: the lock is free and the first waiter, if any, is woken
Release(lock) == [lock EXCEPT !.locked = FALSE, !.woken = lock.waiters # <<>>]

\* the buffer, its lock, the consumer of get_chunks and the callers of
\* add_chunk; added, delivered, displaced and met record what happened: the
\* chunks in the order they were appended, those handed to the consumer,
\* those popped on overflow, and what the consumer was doing when a call of
\* add_chunk found the lock held
IdleChunks ==
    [buffer |-> <<>>, lock |-> FreeLock, consumer |-> "idle",
     adder |-> [a \in Adders |-> [pc |-> "idle", chunk |-> 0]],
     issued |-> 0, added |-> <<>>, delivered |-> <<>>, displaced |-> {},
     met |-> {}]

\* the body of add_chunk under the lock, and the release at its end
AddUnderLock(b, a, lock) ==
    LET appended == Append(b.buffer, b.adder[a].chunk)
        over == Len(appended) > max_size
    IN  [b EXCEPT !.buffer = IF over THEN Tail(appended) ELSE appended,
                  !.displaced = IF over THEN @ \cup {Head(appended)} ELSE @,
                  !.added = Append(@, b.adder[a].chunk),
                  !.adder[a].pc = "done",
                  !.lock = Release(lock)]

\* the body of get_chunks under the lock: a chunk is popped and yielded, or
\* the generator sleeps, in both cases holding the lock
TakeUnderLock(b, lock) ==
    IF b.buffer # <<>>
    THEN [b EXCEPT !.buffer = Tail(@), !.delivered = Append(@, Head(b.buffer)),
                   !.consumer = "holding", !.lock = lock]
    ELSE [b EXCEPT !.consumer = "sleeping", !.lock = lock]

\* the consumer at `async with self.lock` with the lock as it is
ConsumerAcquire(b, lock) ==
    IF CanAcquire(lock) THEN TakeUnderLock(b, [lock EXCEPT !.locked = TRUE])
    ELSE [b EXCEPT !.consumer = "waiting", !.lock = Enqueue(lock, Consumer)]

\* add_chunk up to its first suspension: it runs through when the lock can be
\* taken at once, else it waits for the lock
add_chunk(a) ==
    /\ chunks.adder[a].pc \in {"idle", "done"}
    /\ chunks.issued < MaxChunks
    /\ LET b == [chunks EXCEPT !.issued = @ + 1,
                               !.adder[a].chunk = chunks.issued + 1]
       IN  chunks' =
             IF CanAcquire(chunks.lock)
             THEN AddUnderLock(b, a, [chunks.lock EXCEPT !.locked = TRUE])
             ELSE [b EXCEPT !.adder[a].pc = "waiting",
                            !.lock = Enqueue(chunks.lock, a),
                            !.met = IF chunks.lock.locked
                                    THEN @ \cup {chunks.consumer} ELSE @]
    /\ UNCHANGED <<pathVars, conversations, streaming, adaptive>>

\* add_chunk from the wake-up of its wait for the lock
add_chunk_resume(a) ==
    /\ chunks.adder[a].pc = "waiting"
    /\ chunks.lock.woken
    /\ Head(chunks.lock.waiters) = a
    /\ chunks' = AddUnderLock(chunks, a, Acquired(chunks.lock))
    /\ UNCHANGED <<pathVars, conversations, streaming, adaptive>>

\* the first request of the consumer: get_chunks up to its first suspension
get_chunks_begin ==
    /\ chunks.consumer = "idle"
    /\ chunks' = ConsumerAcquire(chunks, chunks.lock)
    /\ UNCHANGED <<pathVars, conversations, streaming, adaptive>>

\* the consumer asks for the next chunk: the generator leaves the lock it held
\* over the yield and comes back to it
get_chunks_next ==
    /\ chunks.consumer = "holding"
    /\ chunks' = ConsumerAcquire(chunks, Release(chunks.lock))
    /\ UNCHANGED <<pathVars, conversations, streaming, adaptive>>

\* the sleep on the empty buffer is over: the generator leaves the lock and
\* comes back to it
get_chunks_wake ==
    /\ chunks.consumer = "sleeping"
    /\ chunks' = ConsumerAcquire(chunks, Release(chunks.lock))
    /\ UNCHANGED <<pathVars, conversations, streaming, adaptive>>

\* get_chunks from the wake-up of its wait for the lock
get_chunks_resume ==
    /\ chunks.consumer = "waiting"
    /\ chunks.lock.woken
    /\ Head(chunks.lock.waiters) = Consumer
    /\ chunks' = TakeUnderLock(chunks, Acquired(chunks.lock))
    /\ UNCHANGED <<pathVars, conversations, streaming, adaptive>>

(***************************************************************************)
(* AdaptiveStreaming                                                       *)
(***************************************************************************)
\* the chunk sizes of AdaptiveStreaming.__init__, scaled down; the factor 1.1
\* is kept
chunk_size == 10

min_chunk_size == 9

max_chunk_size == 12

\* the pieces the data source yields in one run
MaxPieces == 2

\* the lengths of the pieces of the data source
PieceLengths == {0, 3, 12, 23}

Min(a, b) == IF a <= b THEN a ELSE b

Max(a, b) == IF a >= b THEN a ELSE b

\* max(min_chunk_size, int(chunk_size / 1.1))
Slower(size) == Max(min_chunk_size, (size * 10) \div 11)

\* min(max_chunk_size, int(chunk_size * 1.1))
Faster(size) == Min(max_chunk_size, (size * 11) \div 10)

\* the chunk size after a cut: reduced when there is a callback and it
\* answers that the client is not ready, else increased
Adjust(size, callback, ready) ==
    IF callback /\ ~ready THEN Slower(size) ELSE Faster(size)

\* buffer[:n]
Chunk(buffer, n) == SubSeq(buffer, 1, Min(n, Len(buffer)))

\* a rest that starts one character late
RestSkips(buffer, n) == SubSeq(buffer, n + 2, Len(buffer))

\* buffer[n:]
Rest(buffer, n) == SubSeq(buffer, n + 1, Len(buffer))

\* the characters number n + 1 to n + len of the input
Piece(n, len) == [i \in 1..len |-> n + i]

\* one run of stream_with_backpressure on an AdaptiveStreaming object: the
\* object's chunk_size, whether a callback was given, the local buffer, and
\* for the record the input pulled so far, the number of its pieces, the
\* chunks yielded and the answers of the callback
IdleAdaptive ==
    [pc |-> "idle", chunk_size |-> chunk_size, callback |-> FALSE, buffer |-> <<>>,
     input |-> <<>>, pieces |-> 0, out |-> <<>>, answers |-> {}]

\* the while loop at its test: a chunk is cut off the buffer, the chunk size
\* adjusted and the chunk yielded, or the loop is left for the next piece
CutOrPull(s, ready) ==
    IF Len(s.buffer) >= s.chunk_size
    THEN [s EXCEPT !.pc = "yielded",
                   !.buffer = Rest(s.buffer, s.chunk_size),
                   !.out = Append(@, Chunk(s.buffer, s.chunk_size)),
                   !.chunk_size = Adjust(@, s.callback, ready),
                   !.answers = IF s.callback THEN @ \cup {ready} ELSE @]
    ELSE [s EXCEPT !.pc = "pulling"]

\* the call: nothing runs before the generator is asked for its first chunk
stream_with_backpressure(callback) ==
    /\ adaptive.pc = "idle"
    /\ adaptive' = [adaptive EXCEPT !.pc = "pulling", !.callback = callback]
    /\ UNCHANGED <<pathVars, conversations, streaming, chunks>>

\* the data source yields a piece: it is added to the buffer and the while
\* loop entered
stream_pull(len, ready) ==
    /\ adaptive.pc = "pulling"
    /\ adaptive.pieces < MaxPieces
    /\ LET data == Piece(Len(adaptive.input), len) IN
       adaptive' = CutOrPull([adaptive EXCEPT !.buffer = @ \o data,
                                              !.input = @ \o data,
                                              !.pieces = @ + 1], ready)
    /\ UNCHANGED <<pathVars, conversations, streaming, chunks>>

\* the consumer asks for the next chunk after a yield inside the while loop
stream_next(ready) ==
    /\ adaptive.pc = "yielded"
    /\ adaptive' = CutOrPull(adaptive, ready)
    /\ UNCHANGED <<pathVars, conversations, streaming, chunks>>

\* the data source is exhausted: what is left in the buffer is yielded
stream_end ==
    /\ adaptive.pc = "pulling"
    /\ adaptive' = [adaptive EXCEPT
                      !.pc = "done",
                      !.out = IF adaptive.buffer # <<>>
                              THEN Append(@, adaptive.buffer) ELSE @,
                      !.buffer = <<>>]
    /\ UNCHANGED <<pathVars, conversations, streaming, chunks>>

\* another run on the same object cuts a chunk while this one is suspended:
\* the chunk size they share is adjusted
stream_other(callback, ready) ==
    /\ adaptive.pc \in {"pulling", "yielded"}
    /\ adaptive' = [adaptive EXCEPT !.chunk_size = Adjust(@, callback, ready)]
    /\ UNCHANGED <<pathVars, conversations, streaming, chunks>>

(***************************************************************************)
(* GatewayFacade: the request-shape preconditions of a chat request        *)
(***************************************************************************)
MaxInvocations == 3

Roles == {"system", "user", "assistant"}

\* no chat request handled yet
IdleFacade ==
    [op |-> "none", messages |-> <<>>, status |-> 0, code |-> "",
     invocations |-> 0, before |-> 0]

\* a check that only asks for a message
ValidateNonEmpty(messages) ==
    IF messages = <<>> THEN "missing_messages" ELSE "ok"

\* the request-shape preconditions: at least one message, and at least one
\* message with role user
Validate(messages) ==
    IF messages = <<>> THEN "missing_messages"
    ELSE IF \A i \in 1..Len(messages) : messages[i] # "user" THEN "missing_user_message"
    ELSE "ok"

\* one chat request with the given roles of its messages: a violation of the
\* preconditions is answered with a validation error and the backing tool is
\* not invoked; otherwise the tool is invoked once
chat_completions(messages) ==
    /\ Validate(messages) = "ok" => facade.invocations < MaxInvocations
    /\ facade' =
         IF Validate(messages) # "ok"
         THEN [op |-> "chat", messages |-> messages, status |-> 400,
               code |-> Validate(messages),
               invocations |-> facade.invocations, before |-> facade.invocations]
         ELSE [op |-> "chat", messages |-> messages, status |-> 200, code |-> "",
               invocations |-> facade.invocations + 1, before |-> facade.invocations]
    /\ UNCHANGED <<agg, parser, conc, auth, sideVars, processes, call, conv, stopVars, sessionVars>>

(***************************************************************************)
(* auth_middleware and the RateLimiter                                     *)
(***************************************************************************)
requests_per_minute == 3

burst == 2

\* the length of the rate limiter's window, in ticks of its clock
Window == 2

MaxClock == 3

public_paths == {"/", "/health", "/docs", "/redoc", "/openapi.json"}

\* an attribute of request.state that was never set
Unset == "unset"

\* a request: its path, its Authorization header (scheme "none" when absent),
\* its x-api-key header and api_key query parameter ("" when absent), and
\* whether request.client is set
Request(path, scheme, token, x_api_key, query, client) ==
    [path |-> path, authorization |-> [scheme |-> scheme, token |-> token],
     x_api_key |-> x_api_key, query |-> query, client |-> client]

NoRequest == Request("", "none", "", "", "", FALSE)

\* the middleware before any request, with the settings it runs under
IdleAuth(require_auth, api_keys) ==
    [require_auth |-> require_auth, api_keys |-> api_keys, store |-> Empty,
     clock |-> 0, op |-> "none", request |-> NoRequest,
     state |-> [api_key |-> Unset, client_id |-> Unset],
     status |-> 0, code |-> "", reached |-> FALSE, allowed |-> "unasked"]

\* extract_api_key; "" stands for None
extract_api_key(request) ==
    IF request.authorization.scheme = "Bearer" THEN request.authorization.token
    ELSE IF request.x_api_key # "" THEN request.x_api_key
    ELSE IF request.query # "" THEN request.query
    ELSE ""

\* a validation that takes every key
validate_any_key(api_key) == TRUE

validate_api_key(api_key) ==
    IF ~auth.require_auth THEN TRUE
    ELSE IF auth.api_keys = {} THEN FALSE
    ELSE api_key \in auth.api_keys

\* the entry of a key in RateLimiter.store, created on first use
Entry(store, key) ==
    IF key \in DOMAIN store THEN store[key] ELSE [requests |-> <<>>, burst_used |-> 0]

\* the requests of the last window
Recent(requests, t) == SelectSeq(requests, LAMBDA r : t - r < Window)

\* RateLimiter.is_allowed at time t: the verdict and the store afterwards
is_allowed(store, key, t) ==
    LET entry == Entry(store, key)
        recent == Recent(entry.requests, t)
        spent == entry.burst_used >= burst
        used == IF spent /\ recent = <<>> THEN 0 ELSE entry.burst_used
        kept == Put(store, key, [requests |-> recent, burst_used |-> used])
    IN  IF spent /\ recent # <<>> THEN [allowed |-> FALSE, store |-> kept]
        ELSE IF Len(recent) >= requests_per_minute THEN [allowed |-> FALSE, store |-> kept]
        ELSE [allowed |-> TRUE,
              store |-> Put(store, key, [requests |-> Append(recent, t),
                                         burst_used |-> used + 1])]

\* a response of the middleware itself
Deny(request, status, code, allowed, store) ==
    [auth EXCEPT !.op = "request", !.request = request,
                 !.state = [api_key |-> Unset, client_id |-> Unset],
                 !.status = status, !.code = code, !.reached = FALSE,
                 !.allowed = allowed, !.store = store]

\* call_next: the request reaches the core with the given request.state
Pass(request, state, allowed, store) ==
    [auth EXCEPT !.op = "request", !.request = request, !.state = state,
                 !.status = 200, !.code = "", !.reached = TRUE,
                 !.allowed = allowed, !.store = store]

auth_middleware(request) ==
    /\ LET api_key == extract_api_key(request)
           client_id == IF request.client THEN api_key ELSE "anonymous"
           verdict == is_allowed(auth.store, client_id, auth.clock)
       IN  auth' =
             IF request.path \in public_paths
             THEN Pass(request, [api_key |-> Unset, client_id |-> Unset],
                       "unasked", auth.store)
             ELSE IF ~auth.require_auth
             THEN Pass(request, [api_key |-> "", client_id |-> "testclient"],
                       "unasked", auth.store)
             ELSE IF api_key = ""
             THEN Deny(request, 401, "missing_api_key", "unasked", auth.store)
             ELSE IF ~validate_api_key(api_key)
             THEN Deny(request, 401, "invalid_api_key", "unasked", auth.store)
             ELSE IF ~verdict.allowed
             THEN Deny(request, 429, "rate_limit_exceeded", "no", verdict.store)
             ELSE Pass(request, [api_key |-> api_key, client_id |-> client_id],
                       "yes", verdict.store)
    /\ UNCHANGED <<agg, parser, conc, facade, sideVars, processes, call, conv, stopVars,
                   sessionVars>>

\* time.time() advances
auth_tick ==
    /\ auth.clock < MaxClock
    /\ auth' = [auth EXCEPT !.clock = @ + 1]
    /\ UNCHANGED <<agg, parser, conc, facade, sideVars, processes, call, conv, stopVars,
                   sessionVars>>

(***************************************************************************)
(* create_non_streaming_response                                           *)
(***************************************************************************)
\* "Hello! I'm Claude, ready to help."
Placeholder ==
    <<"H", "e", "l", "l", "o", "!", " ", "I", "'", "m", " ", "C", "l", "a",
      "u", "d", "e", ",", " ", "r", "e", "a", "d", "y", " ", "t", "o", " ",
      "h", "e", "l", "p", ".">>

\* "Response received but content was empty."
EmptyFallback ==
    <<"R", "e", "s", "p", "o", "n", "s", "e", " ", "r", "e", "c", "e", "i",
      "v", "e", "d", " ", "b", "u", "t", " ", "c", "o", "n", "t", "e", "n",
      "t", " ", "w", "a", "s", " ", "e", "m", "p", "t", "y", ".">>

\* the fixed prompt_tokens of the usage block
prompt_tokens == 10

\* a content part that is no text part but carries a "text" key
OtherPart(t) == [type |-> "tool_use", text |-> t]

\* the stripped, non-empty texts of the text parts of a content list, in order
RECURSIVE PartTexts(_)
PartTexts(parts) ==
    IF parts = <<>> THEN <<>>
    ELSE LET text == Strip(Head(parts).text) IN
         IF Head(parts).type = "text" /\ text # <<>>
         THEN <<text>> \o PartTexts(Tail(parts))
         ELSE PartTexts(Tail(parts))

\* a loop body that takes the text of the bare-string shape as it is
MessageTextsUnstripped(msg) ==
    IF msg.type # "assistant" \/ msg.message.kind # "dict" THEN <<>>
    ELSE LET content == msg.message.content IN
         IF content.kind = "list" THEN PartTexts(content.parts)
         ELSE IF content.kind = "str" /\ Strip(content.str) # <<>>
              THEN <<content.str>>
         ELSE <<>>

\* what one message adds to content_parts
MessageTexts(msg) ==
    IF msg.type # "assistant" \/ msg.message.kind # "dict" THEN <<>>
    ELSE LET content == msg.message.content IN
         IF content.kind = "list" THEN PartTexts(content.parts)
         ELSE IF content.kind = "str" /\ Strip(content.str) # <<>>
              THEN <<Strip(content.str)>>
         ELSE <<>>

\* msg["message"].get raises: an assistant message whose "message" is truthy
\* and no object
MessageRaises(msg) == msg.type = "assistant" /\ msg.message.kind = "nondict"

\* the loop over messages: content_parts, or raised at the first such message
RECURSIVE ContentParts(_)
ContentParts(messages) ==
    IF messages = <<>> THEN [raised |-> FALSE, parts |-> <<>>]
    ELSE IF MessageRaises(Head(messages)) THEN [raised |-> TRUE, parts |-> <<>>]
    ELSE LET rest == ContentParts(Tail(messages)) IN
         [rest EXCEPT !.parts = IF rest.raised THEN <<>>
                                ELSE MessageTexts(Head(messages)) \o @]

\* a join that separates with a space
JoinSpace(parts) ==
    IF parts = <<>> THEN <<>>
    ELSE LET F[i \in 1..Len(parts)] ==
                 IF i = 1 THEN parts[1] ELSE F[i - 1] \o <<" ">> \o parts[i]
         IN  F[Len(parts)]

\* "\n".join(parts)
Join(parts) ==
    IF parts = <<>> THEN <<>>
    ELSE LET F[i \in 1..Len(parts)] ==
                 IF i = 1 THEN parts[1] ELSE F[i - 1] \o <<"\n">> \o parts[i]
         IN  F[Len(parts)]

\* a count of characters
SplitCountChars(t) == Len(t)

\* len(t.split())
SplitCount(t) ==
    LET F[i \in 0..Len(t)] ==
            IF i = 0 THEN 0
            ELSE IF t[i] \in Whitespace THEN F[i - 1]
            ELSE IF i > 1 /\ t[i - 1] \notin Whitespace THEN F[i - 1]
            ELSE F[i - 1] + 1
    IN  F[Len(t)]

NoResponse ==
    [raised |-> FALSE, content |-> <<>>, prompt_tokens |-> 0,
     completion_tokens |-> 0, total_tokens |-> 0]

\* a response without the placeholder and the fallback for empty content
ResponseNoFallback(messages) ==
    LET cp == ContentParts(messages)
        complete_content == Strip(Join(cp.parts))
        completion == SplitCount(complete_content)
    IN  IF cp.raised THEN [NoResponse EXCEPT !.raised = TRUE]
        ELSE [raised |-> FALSE, content |-> complete_content,
              prompt_tokens |-> prompt_tokens,
              completion_tokens |-> completion,
              total_tokens |-> prompt_tokens + completion]

\* the response of create_non_streaming_response, or the exception leaving it
Response(messages) ==
    LET cp == ContentParts(messages)
        joined == IF cp.parts # <<>> THEN Strip(Join(cp.parts)) ELSE Placeholder
        complete_content == IF joined = <<>> THEN EmptyFallback ELSE joined
        completion == IF complete_content # <<>> THEN SplitCount(complete_content)
                      ELSE 5
    IN  IF cp.raised THEN [NoResponse EXCEPT !.raised = TRUE]
        ELSE [raised |-> FALSE, content |-> complete_content,
              prompt_tokens |-> prompt_tokens,
              completion_tokens |-> completion,
              total_tokens |-> prompt_tokens + completion]

IdleAgg == [pc |-> "idle", messages |-> <<>>, response |-> NoResponse]

create_non_streaming_response ==
    /\ agg.pc = "called"
    /\ agg' = [agg EXCEPT !.pc = "done", !.response = Response(agg.messages)]
    /\ UNCHANGED <<parser, conc, frontVars, sideVars, processes, call, conv, stopVars, sessionVars>>

(***************************************************************************)
(* ClaudeOutputParser                                                      *)
(* A line is blank, not JSON, JSON that is no object, or a JSON object     *)
(* with these keys; "" stands for an absent key or null, usage "bad" for a *)
(* usage object whose token counts are no numbers.                         *)
(***************************************************************************)
Data(type, sid, model, message, usage, tokens, cost) ==
    [type |-> type, session_id |-> sid, model |-> model, message |-> message,
     usage |-> usage, input_tokens |-> tokens[1], output_tokens |-> tokens[2],
     cost_usd |-> cost]

NoData == Data("", "", "", "absent", "absent", <<0, 0>>, 0)

PJson(data) == [kind |-> "json", data |-> data, raw |-> <<>>]

PScalar == [kind |-> "scalar", data |-> NoData, raw |-> <<"4", "2">>]

PGarbage == [kind |-> "garbage", data |-> NoData, raw |-> <<"x", "{">>]

PBlank == [kind |-> "blank", data |-> NoData, raw |-> <<" ">>]

\* the value parse_line returns: None or a ClaudeMessage
None == [kind |-> "none", data |-> NoData]

Message(data) == [kind |-> "event", data |-> data]

\* ClaudeOutputParser.__init__
NewParser ==
    [session_id |-> "", model |-> "", total_tokens |-> 0, total_cost |-> 0,
     message_count |-> 0]

\* a validation that accepts only assistant messages
ValidatesAssistantOnly(data) == data.type = "assistant" /\ data.message # "nondict"

\* ClaudeMessage(**data) validates: type is required, message is an object
\* when present
Validates(data) == data.type # "" /\ data.message # "nondict"

\* an assignment that takes every reported value
LastWins(cur, new) == IF new # "" THEN new ELSE cur

\* if message.session_id and not self.session_id: self.session_id = ...
FirstWins(cur, new) == IF new # "" /\ cur = "" THEN new ELSE cur

\* a test that counts every message
CountsAsMessageAny(type) == TRUE

\* message.type in ["user", "assistant"]
CountsAsMessage(type) == type \in {"user", "assistant"}

\* get_session_summary
Summary(st) ==
    [session_id |-> st.session_id, model |-> st.model,
     total_tokens |-> st.total_tokens, total_cost |-> st.total_cost,
     message_count |-> st.message_count]

\* parse_line: <<the parser after the call, the value returned>>
ParseLine(st, line) ==
    IF line.kind = "blank" THEN <<st, None>>
    ELSE IF line.kind = "garbage" THEN <<st, None>>
    ELSE IF line.kind = "scalar" THEN <<st, None>>
    ELSE LET data == line.data IN
         IF ~Validates(data) THEN <<st, None>>
         ELSE LET s1 == [st EXCEPT !.session_id = FirstWins(@, data.session_id),
                                   !.model = FirstWins(@, data.model)]
              IN  IF data.usage = "bad" THEN <<s1, None>>
                  ELSE <<[s1 EXCEPT
                            !.total_tokens =
                                IF data.usage = "ok"
                                THEN @ + data.input_tokens + data.output_tokens
                                ELSE @,
                            !.total_cost = @ + data.cost_usd,
                            !.message_count =
                                IF CountsAsMessage(data.type) THEN @ + 1
                                ELSE @],
                         Message(data)>>

\* the parser, the number of calls of parse_line, and the last call made on
\* it: the line, the value returned and the parser before the call
IdleParser ==
    [state |-> NewParser, calls |-> 0, op |-> "none", line |-> PBlank,
     result |-> None, before |-> NewParser, summary |-> Summary(NewParser)]

parse_line(line) ==
    /\ parser.calls < MaxParses
    /\ LET r == ParseLine(parser.state, line) IN
       parser' = [parser EXCEPT !.state = r[1], !.calls = @ + 1, !.op = "parse",
                                !.line = line, !.result = r[2],
                                !.before = parser.state]
    /\ UNCHANGED <<agg, conc, frontVars, sideVars, processes, call, conv, stopVars, sessionVars>>

get_session_summary ==
    /\ parser.op \in {"parse", "reset"}
    /\ parser' = [parser EXCEPT !.op = "summary", !.summary = Summary(parser.state)]
    /\ UNCHANGED <<agg, conc, frontVars, sideVars, processes, call, conv, stopVars, sessionVars>>

reset ==
    /\ parser.op \in {"parse", "summary"}
    /\ parser' = [parser EXCEPT !.state = NewParser, !.op = "reset",
                                !.before = parser.state]
    /\ UNCHANGED <<agg, conc, frontVars, sideVars, processes, call, conv, stopVars, sessionVars>>

(***************************************************************************)
(* ClaudeProcess.stop and ClaudeManager.stop_session                       *)
(* processes maps a session id to the key of its ClaudeProcess in handles; *)
(* an object outlives its registry entry while a coroutine still holds it. *)
(***************************************************************************)
\* a call of stop_session: before and after are <<processes, handles>> at the
\* call and at its end, in_flight the create_session calls running for the id
\* at the call, kill what became of process.kill()
IdleStop ==
    [pc |-> "idle", session_id |-> "", error |-> NoException, kill |-> "none",
     in_flight |-> {}, before |-> <<Empty, Empty>>, after |-> <<Empty, Empty>>,
     sent |-> <<>>, waited |-> 0]

\* the timeout of the wait in stop, in seconds
grace_period == 5

\* how long the wait of stop can last: less than the grace period when the tool
\* ends within it, the whole period when the wait times out
WaitTimes(outcome) ==
    IF outcome = "graceful" THEN 0..(grace_period - 1) ELSE {grace_period}

\* a stop that kills whatever the wait came to
AfterWaitAlwaysKill(outcome) == <<"kill">>

\* what stop sends after its wait: kill() in the handler of the timeout only
AfterWait(outcome) == IF outcome = "graceful" THEN <<>> ELSE <<"kill">>

Stoppers == DOMAIN stopper

\* session_id in self.processes
Registered(reg, sid) == sid \in DOMAIN reg

\* a delete that empties the registry
UnregisterAll(reg, sid) == Empty

\* del self.processes[session_id]
Unregister(reg, sid) == Del(reg, sid)

\* the backing tool has been spawned and is not gone
Alive(p) == p.tool \in {"exits", "hangs"}

\* what the wait of stop can come to: the tool ends within the grace period;
\* the wait times out and kill() ends it; the wait times out and kill() raises
StopOutcomes == {"graceful", "killed", "kill_fails"}

\* the finally clause of stop
ClearProcess(p) == [p EXCEPT !.process = "none"]

\* stop_session up to its first suspension. An unregistered id returns at once.
\* stop() clears is_running; without a process object, or when terminate()
\* raises because the tool is gone (caught and logged), it ends without
\* suspending and the entry is deleted; else it waits for the tool.
stop_session_begin(k, sid) ==
    /\ stopper[k].pc \in {"idle", "done", "raised"}
    /\ LET flying == {c \in Callers : Running(c) /\ call[c].session_id = sid}
           st == [IdleStop EXCEPT !.session_id = sid, !.in_flight = flying,
                                  !.before = <<processes, handles>>]
       IN  IF ~Registered(processes, sid)
           THEN /\ stopper' = [stopper EXCEPT ![k] =
                      [st EXCEPT !.pc = "done", !.after = <<processes, handles>>]]
                /\ UNCHANGED <<processes, handles>>
           ELSE LET o == processes[sid]
                    p == [handles[o] EXCEPT !.is_running = FALSE]
                IN  IF p.process = "none" \/ ~Alive(p)
                    THEN LET reg == Unregister(processes, sid)
                             hs == [handles EXCEPT ![o] = ClearProcess(p)]
                         IN  /\ processes' = reg
                             /\ handles' = hs
                             /\ stopper' = [stopper EXCEPT ![k] =
                                   [st EXCEPT !.pc = "done", !.after = <<reg, hs>>,
                                              !.sent = IF p.process = "none" THEN <<>>
                                                       ELSE <<"terminate">>]]
                    ELSE /\ handles' = [handles EXCEPT ![o] = p]
                         /\ stopper' = [stopper EXCEPT ![k] =
                               [st EXCEPT !.pc = "waiting", !.sent = <<"terminate">>]]
                         /\ UNCHANGED processes
    /\ UNCHANGED <<call, conv, utilVars, sessionVars>>

\* the wait of stop ends. A tool another call has ended meanwhile makes the
\* wait return. An exception of kill() is raised inside the handler of the
\* timeout, so the handler beside it does not catch it: after the finally
\* clause it leaves stop and stop_session, and the entry is not deleted.
\* Deleting an entry another call has deleted raises KeyError.
stop_session_finish(k, outcome, waited) ==
    /\ stopper[k].pc = "waiting"
    /\ waited \in WaitTimes(outcome)
    /\ LET sid == stopper[k].session_id
           p == handles[sid]
       IN  /\ (~Alive(p) => outcome = "graceful")
           /\ LET tool == IF ~Alive(p) THEN p.tool
                          ELSE IF outcome = "killed" THEN "killed" ELSE "terminated"
                  hs == [handles EXCEPT ![sid] = ClearProcess([p EXCEPT !.tool = tool])]
                  failed == outcome = "kill_fails"
                  missing == ~failed /\ ~Registered(processes, sid)
                  reg == IF failed \/ missing THEN processes
                         ELSE Unregister(processes, sid)
              IN  /\ handles' = hs
                  /\ processes' = reg
                  /\ stopper' = [stopper EXCEPT ![k] =
                        [@ EXCEPT
                           !.pc = IF failed \/ missing THEN "raised" ELSE "done",
                           !.error = IF failed THEN Exception("kill", <<>>)
                                     ELSE IF missing THEN Exception("KeyError", <<>>)
                                     ELSE NoException,
                           !.kill = IF outcome = "graceful" THEN "none"
                                    ELSE IF failed THEN "failed" ELSE "ok",
                           !.sent = @ \o AfterWait(outcome),
                           !.waited = waited,
                           !.after = <<reg, hs>>]]
    /\ UNCHANGED <<call, conv, utilVars, sessionVars>>

(***************************************************************************)
(* Specifications                                                          *)
(***************************************************************************)
\* no function is being checked on its own
InitFront == facade = IdleFacade /\ auth = IdleAuth(TRUE, {"k1"})

InitSide ==
    /\ conversations = IdleConversations
    /\ streaming = IdleStreaming
    /\ chunks = IdleChunks
    /\ adaptive = IdleAdaptive

InitUtil ==
    agg = IdleAgg /\ parser = IdleParser /\ conc = IdleConc /\ InitFront /\ InitSide

InitSessions ==
    /\ active_sessions = Empty
    /\ db = Empty
    /\ db_messages = [id \in SessionIds |-> 0]
    /\ now = 0
    /\ ended = {}
    /\ last = Last("none", "", "", {}, NoStats)

\* n callers of stop_session
InitStop(n) == stopper = [k \in 1..n |-> IdleStop]

InitSupervisor(n) ==
    /\ processes = Empty
    /\ handles = Empty
    /\ InitStop(1)
    /\ call = [c \in 1..n |-> IdleCall]
    /\ conv = InitConv

ExitCodes == {0, 1}

\* One request end to end: any stdout of up to MaxLines lines, any exit status.
Init == InitSupervisor(1) /\ InitSessions /\ InitUtil

\* a spawned backing tool either exits at some time or never does
Tools == {"exits", "hangs"}

Begin ==
    \E spawned \in BOOLEAN, tool \in Tools : create_session_begin(1, "s1", spawned, tool)

Finish ==
    /\ Running(1)
    /\ \E rc \in ExitCodes, stdout \in SeqsUpTo(PipeLines, MaxLines), stderr \in Stderrs :
          create_session_finish(1, rc, stdout, stderr)

Open == convert_open(1)

Convert == convert_next(1)

OutputTimeout == get_output_timeout(1)

Next ==
    \/ Begin
    \/ Finish
    \/ Open
    \/ Convert
    \/ OutputTimeout
    \/ convert_final
    \/ convert_done

Spec == Init /\ [][Next]_vars

\* One request end to end where every step that can be taken is taken: the
\* event loop runs every ready coroutine, and a tool that exits is reaped.
SpecLive == Init /\ [][Next]_vars /\ WF_vars(Next)

\* The translator on long outputs: up to MaxEvents JSON lines, exit status 0.
StreamFinish ==
    /\ Running(1)
    /\ \E stdout \in SeqsUpTo(StreamLines, MaxEvents) :
          create_session_finish(1, 0, stdout, <<>>)

NextStream ==
    \/ Begin
    \/ StreamFinish
    \/ Open
    \/ Convert
    \/ OutputTimeout
    \/ convert_final
    \/ convert_done

SpecStream == Init /\ [][NextStream]_vars

\* max_concurrent + 1 callers of ClaudeManager.create_session.
NumCallers == max_concurrent + 1

InitConc == InitSupervisor(NumCallers) /\ InitSessions /\ InitUtil

ConcBegin ==
    \E c \in Callers, sid \in SessionIds, spawned \in BOOLEAN, tool \in Tools :
        create_session_begin(c, sid, spawned, tool)

ConcFinish ==
    \E c \in Callers, rc \in ExitCodes, stdout \in {<<>>, <<LnAsstStr>>} :
        create_session_finish(c, rc, stdout, <<"E">>)

NextConc == ConcBegin \/ ConcFinish

SpecConc == InitConc /\ [][NextConc]_vars

\* stop_session called while calls of create_session are in flight.
CancelStop == \E sid \in SessionIds : stop_session_begin(1, sid)

NextCancel == ConcBegin \/ ConcFinish \/ CancelStop

SpecCancel == InitConc /\ [][NextCancel]_vars

\* stop_session and ClaudeProcess.stop on a registry that holds handles: any
\* of the session ids registered, each handle without a process object, with a
\* live tool or with a tool that has exited; two concurrent callers.
NumStoppers == 2

StopHandles(sid) ==
    {[ClaudeProcess(sid) EXCEPT !.process = h[1], !.tool = h[2]] :
        h \in {<<"none", "none">>, <<"ref", "hangs">>, <<"ref", "exited">>}}

InitRegistry ==
    \E S \in SUBSET SessionIds :
        /\ processes = [sid \in S |-> sid]
        /\ handles \in [S -> UNION {StopHandles(sid) : sid \in S}]
        /\ \A sid \in S : handles[sid].session_id = sid

InitStopUnit ==
    /\ InitRegistry
    /\ InitStop(NumStoppers)
    /\ call = [c \in 1..1 |-> IdleCall]
    /\ conv = InitConv
    /\ InitSessions
    /\ InitUtil

StopBegin == \E k \in Stoppers, sid \in SessionIds : stop_session_begin(k, sid)

StopFinish ==
    \E k \in Stoppers, outcome \in StopOutcomes, waited \in 0..grace_period :
        stop_session_finish(k, outcome, waited)

NextStop == StopBegin \/ StopFinish

SpecStop == InitStopUnit /\ [][NextStop]_vars

\* create_non_streaming_response on its own: any list of up to MaxMessages
\* messages of these shapes.
EvHello ==
    Obj("assistant", "", DictMessage(StrContent(<<"H", "e", "l", "l", "o", "!">>)))

EvSpaced == Obj("assistant", "", DictMessage(StrContent(<<" ", "a", " ", "b", "\n">>)))

EvBlank == Obj("assistant", "", DictMessage(StrContent(<<" ">>)))

EvList ==
    Obj("assistant", "",
        DictMessage(ListContent(<<TextPart(<<"b">>), OtherPart(<<"z">>),
                                  TextPart(<<" ">>), TextPart(<<"c", " ">>)>>)))

EvNoContent == Obj("assistant", "", DictMessage(NoContent))

EvUser == Obj("user", "", DictMessage(StrContent(<<"u">>)))

AggEvents ==
    {EvHello, EvSpaced, EvBlank, EvList, EvNoContent, EvUser, LnResult.obj,
     LnBadAsst.obj}

InitAggregate ==
    /\ InitSupervisor(1)
    /\ InitSessions
    /\ agg \in {[IdleAgg EXCEPT !.pc = "called", !.messages = ms] :
                    ms \in SeqsUpTo(AggEvents, MaxMessages)}
    /\ parser = IdleParser
    /\ conc = IdleConc
    /\ InitFront
    /\ InitSide

SpecAggregate == InitAggregate /\ [][create_non_streaming_response]_vars

\* ClaudeOutputParser on its own: up to MaxParses lines of these shapes, and
\* reset.
ParserLines ==
    {PJson(Data("system", "t1", "", "absent", "absent", <<0, 0>>, 0)),
     PJson(Data("assistant", "t2", "m2", "dict", "ok", <<1, 2>>, 0)),
     PJson(Data("assistant", "", "m1", "dict", "ok", <<1, 0>>, 1)),
     PJson(Data("result", "t1", "", "absent", "absent", <<0, 0>>, 3)),
     PJson(Data("", "t2", "m1", "absent", "absent", <<0, 0>>, 0)),
     PJson(Data("assistant", "t2", "", "nondict", "absent", <<0, 0>>, 0)),
     PJson(Data("user", "t2", "m1", "dict", "bad", <<0, 0>>, 0)),
     PScalar, PGarbage, PBlank}

ParseAny == \E line \in ParserLines : parse_line(line)

NextParser == ParseAny \/ reset \/ get_session_summary

SpecParser == Init /\ [][NextParser]_vars

\* The session store under create, get, update, end, the sweep and the clock.
Create ==
    \E id \in SessionIds, model \in Models : sm_create_session(id, model)

Get == \E id \in SessionIds : sm_get_session(id)

Update ==
    \E id \in SessionIds, u \in {<<0, 0, <<>>>>, <<1, 2, <<>>>>, <<1, 2, <<"h">>>>} :
        sm_update_session(id, u[1], u[2], u[3])

End == \E id \in SessionIds : sm_end_session(id)

\* SessionManager with concurrent callers, after create_session("s1") has
\* returned
InitConcSessions ==
    /\ active_sessions = Put(Empty, "s1", SessionInfo("m1", 0))
    /\ db = Put(Empty, "s1", SessionRow("m1", 0))
    /\ db_messages = [id \in SessionIds |-> 0]
    /\ now = 0
    /\ ended = {}
    /\ last = Last("create", "s1", "ok", {}, NoStats)
    /\ InitSupervisor(1)
    /\ InitUtil

ConcGet == \E t \in Tasks, id \in SessionIds : conc_get_begin(t, id)

ConcUpdate ==
    \E t \in Tasks, id \in SessionIds, u \in {<<0, 0>>, <<1, 2>>} :
        conc_update_begin(t, id, u[1], u[2])

ConcLoad == \E t \in Tasks : conc_load(t)

ConcResume == \E t \in Tasks : conc_resume(t)

ConcPersist == \E t \in Tasks : conc_persist(t)

NextSessionConc ==
    \/ ConcGet
    \/ ConcUpdate
    \/ ConcLoad
    \/ ConcResume
    \/ ConcPersist
    \/ End

SpecSessionConc == InitConcSessions /\ [][NextSessionConc]_vars

\* chat requests, one after the other
SpecFacade ==
    Init /\ [][\E messages \in SeqsUpTo(Roles, MaxLines) : chat_completions(messages)]_vars

\* the middleware under each setting of require_auth and api_keys
InitAuth ==
    /\ InitSupervisor(1)
    /\ InitSessions
    /\ agg = IdleAgg
    /\ parser = IdleParser
    /\ conc = IdleConc
    /\ facade = IdleFacade
    /\ InitSide
    /\ auth \in {IdleAuth(require_auth, api_keys) :
                    require_auth \in BOOLEAN, api_keys \in {{}, {"k1"}}}

Paths == {"/health", "/v1/sessions"}

Requests ==
    {Request(path, a[1], a[2], x_api_key, query, client) :
        path \in Paths,
        a \in {<<"none", "">>, <<"Bearer", "k1">>, <<"Bearer", "bad">>,
                <<"Bearer", "">>, <<"Basic", "k1">>},
        x_api_key \in {"", "k1"},
        query \in {"", "k1"},
        client \in BOOLEAN}

Handle == \E request \in Requests : auth_middleware(request)

NextAuth ==
    \/ Handle
    \/ auth_tick

SpecAuth == InitAuth /\ [][NextAuth]_vars

\* the ConversationManager over the SessionManager
AddMessage ==
    \E sid \in SessionIds,
       m \in {<<"user", <<"h">>>>, <<"assistant", <<"i">>>>, <<"user", <<>>>>} :
        add_message(sid, m[1], m[2])

GetHistory ==
    \E sid \in SessionIds, limit \in {NoLimit} \cup {Limit(n) : n \in 0..MaxTurns} :
        get_conversation_history(sid, limit)

ClearConversation == \E sid \in SessionIds : clear_conversation(sid)

NextConversation ==
    \/ Create
    \/ AddMessage
    \/ GetHistory
    \/ ClearConversation

SpecConversation == Init /\ [][NextConversation]_vars

\* StreamingManager on its own: runs of create_stream for any session ids, in
\* any interleaving.
StreamBegin == \E g \in Streams, sid \in SessionIds : create_stream_begin(g, sid)

StreamEnd == \E g \in Streams, outcome \in StreamOutcomes : create_stream_finish(g, outcome)

Heartbeat == \E g \in Streams : send_heartbeats(g)

NextRegistry ==
    \/ StreamBegin
    \/ StreamEnd
    \/ Heartbeat

SpecRegistry == Init /\ [][NextRegistry]_vars

\* ChunkBuffer on its own: one consumer of get_chunks and NumAdders tasks that
\* call add_chunk, MaxChunks times in all.
AddChunk == \E a \in Adders : add_chunk(a)

AddChunkResume == \E a \in Adders : add_chunk_resume(a)

NextChunks ==
    \/ AddChunk
    \/ AddChunkResume
    \/ get_chunks_begin
    \/ get_chunks_next
    \/ get_chunks_wake
    \/ get_chunks_resume

SpecChunks == Init /\ [][NextChunks]_vars

\* AdaptiveStreaming on its own: one run over any data source of up to
\* MaxPieces pieces, with or without a callback and with any answers of it.
StreamCall == \E callback \in BOOLEAN : stream_with_backpressure(callback)

StreamPull == \E len \in PieceLengths, ready \in BOOLEAN : stream_pull(len, ready)

StreamNext == \E ready \in BOOLEAN : stream_next(ready)

StreamOther == \E callback \in BOOLEAN, ready \in BOOLEAN : stream_other(callback, ready)

NextAdaptive ==
    \/ StreamCall
    \/ StreamPull
    \/ StreamNext
    \/ stream_end
    \/ StreamOther

SpecAdaptive == Init /\ [][NextAdaptive]_vars

\* the event loop runs every task that is ready: a woken waiter of the lock, a
\* sleep that is over; and the consumer goes on iterating
SpecChunksLive ==
    /\ SpecChunks
    /\ WF_vars(AddChunkResume)
    /\ WF_vars(get_chunks_begin)
    /\ WF_vars(get_chunks_next)
    /\ WF_vars(get_chunks_wake)
    /\ WF_vars(get_chunks_resume)

NextSession ==
    \/ Create
    \/ Get
    \/ Update
    \/ End
    \/ cleanup_expired_sessions
    \/ Tick

SpecSession == Init /\ [][NextSession]_vars

(***************************************************************************)
(* Properties                                                              *)
(***************************************************************************)
\* the callers create_session turned away at the concurrent-session check
Rejected ==
    {c \in Callers : /\ call[c].pc = "raised"
                     /\ call[c].error.what = "Maximum concurrent sessions reached"}

\* C1: at no time are more than max_concurrent invocations of the backing
\* tool in flight.
C1_InFlightBounded == Cardinality(InFlight) <= max_concurrent

\* C2: once max_concurrent + 1 calls have all been issued and none has
\* finished, exactly one of them has been turned away for capacity and the
\* other max_concurrent are in flight.
C2_ExactlyOneRejected ==
    (\A c \in Callers : Running(c) \/ c \in Rejected)
        => /\ Cardinality(Rejected) = 1
           /\ Cardinality(InFlight) = max_concurrent

\* C3: a session id that has been ended (by end_session or by the sweep) and
\* not created again is never in the active index.
C3_EndedNeverActive == \A id \in ended : id \notin DOMAIN active_sessions

\* C4: right after a sweep, every session that was idle past the timeout when
\* the sweep ran is out of the active index and the statistics are those of
\* the other sessions alone; a get that misses the index returns null and
\* leaves the id out, or returns a rehydrated active record for a row the
\* store marks active.
C4_SweepRemovesIdle ==
    /\ last.op = "sweep" =>
          /\ \A id \in last.stale : id \notin DOMAIN active_sessions
          /\ get_session_stats = last.expect
    /\ (last.op = "get" /\ last.ret = "null") => last.id \notin DOMAIN active_sessions
    /\ (last.op = "get" /\ last.ret = "rehydrated") =>
          /\ RowActive(last.id)
          /\ last.id \in DOMAIN active_sessions
          /\ active_sessions[last.id].is_active

\* C4 witness: a sweep has just run over an idle session and a fresh one.
C4_Witness ==
    /\ last.op = "sweep"
    /\ last.stale # {}
    /\ last.expect.active_sessions > 0

\* the units of a kind in a sequence of emitted units
UnitsOf(out, kind) == {i \in 1..Len(out) : out[i].kind = kind}

\* C5: a finished stream is one opening chunk, at most max_chunks content
\* chunks, one closing chunk and one [DONE] sentinel, in this order.
C5_StreamShape ==
    conv.pc = "end" =>
        LET out == conv.out
            n == Len(out)
        IN  /\ n >= 3
            /\ out[1] = InitialChunk
            /\ out[n - 1] = FinalChunk
            /\ out[n] = DoneSentinel
            /\ \A i \in 2..(n - 2) : out[i].kind = "content"
            /\ n - 3 <= max_chunks

\* C5 witness: a finished stream cut at the ceiling, with output left over.
C5_Witness ==
    /\ conv.pc = "end"
    /\ Cardinality(UnitsOf(conv.out, "content")) = max_chunks
    /\ conv.chunk_count > max_chunks

\* the output lines that parse to an assistant Event with text
TextLines(lines) ==
    {i \in 1..Len(lines) : lines[i].kind = "json" /\ ConvertMessage(lines[i].obj).emit}

\* the output lines that parse to a result Event
ResultLines(lines) ==
    {i \in 1..Len(lines) : lines[i].kind = "json" /\ lines[i].obj.type = "result"}

\* C6: when a stream has left its loop without an output timeout, every
\* assistant Event with text that has no result Event before it and fewer
\* than max_chunks assistant Events with text before it has exactly one
\* content chunk, carrying its text.
C6_CeilingCountsContent ==
    (conv.pc \in {"final", "sentinel", "end"} /\ ~conv.timed_out) =>
        LET lines == call[1].process.output_lines IN
        \A i \in TextLines(lines) :
            (/\ \A r \in ResultLines(lines) : r > i
             /\ Cardinality({j \in TextLines(lines) : j < i}) < max_chunks)
            => /\ Cardinality({k \in UnitsOf(conv.out, "content") :
                                  conv.out[k].src = i}) = 1
               /\ \A k \in UnitsOf(conv.out, "content") :
                     conv.out[k].src = i =>
                        conv.out[k].text = ConvertMessage(lines[i].obj).text

\* the output lines whose conversion raises inside the loop: an assistant
\* Event whose "message" is no object
RaisingLines(lines) ==
    {i \in 1..Len(lines) : /\ lines[i].kind = "json"
                           /\ lines[i].obj.type = "assistant"
                           /\ lines[i].obj.message.kind = "nondict"}

\* the loop has taken such a line from the queue within the limit
ConvertedRaising ==
    \E k \in 1..Len(conv.delivered) :
        /\ k <= max_chunks
        /\ conv.delivered[k] \in RaisingLines(call[1].process.output_lines)

\* C7 as stated: a finished stream in which the conversion of a message
\* raised holds exactly one error chunk.
C7_OneErrorChunk ==
    (conv.pc = "end" /\ ConvertedRaising) =>
        Cardinality(UnitsOf(conv.out, "error")) = 1

\* C7 amended: a message whose conversion raises is skipped without an error
\* chunk, and the stream still finishes with the closing chunk and the [DONE]
\* sentinel.
C7_ErrorsSkipped ==
    /\ ConvertedRaising => UnitsOf(conv.out, "error") = {}
    /\ (conv.pc = "end" /\ ConvertedRaising) =>
          /\ conv.out[Len(conv.out) - 1] = FinalChunk
          /\ conv.out[Len(conv.out)] = DoneSentinel

\* C7 witness: a finished stream in which the conversion of a message raised
\* and a later message still got its content chunk.
C7_Witness ==
    /\ conv.pc = "end"
    /\ ConvertedRaising
    /\ conv.swallowed > 0
    /\ \E k \in UnitsOf(conv.out, "content") :
          \E r \in RaisingLines(call[1].process.output_lines) : conv.out[k].src > r

\* the backing tool of caller c has exited with nonzero status
ExitedNonzero(c) == call[c].process.returncode > 0

\* C8: after a nonzero exit create_session has raised, the output queue of
\* the process is empty and the translator has been given nothing.
C8_FailClosed ==
    \A c \in Callers :
        ExitedNonzero(c) =>
            /\ call[c].pc = "raised"
            /\ call[c].process.output_queue = <<>>
            /\ conv = InitConv

\* C8 witness: a nonzero exit whose stdout held a valid JSON object line.
C8_Witness ==
    /\ ExitedNonzero(1)
    /\ \E i \in 1..Len(call[1].process.stdout) : call[1].process.stdout[i].kind = "json"

\* C9: after a nonzero exit the error raised to the caller carries the
\* captured standard-error text.
C9_ErrorCarriesStderr ==
    \A c \in Callers :
        ExitedNonzero(c) => call[c].error.text = Strip(call[c].process.stderr)

\* strictly increasing
Increasing(seq) == \A i, j \in 1..Len(seq) : i < j => seq[i] < seq[j]

\* the source lines of the content chunks, in emission order
RECURSIVE ContentSources(_)
ContentSources(out) ==
    IF out = <<>> THEN <<>>
    ELSE IF Head(out).kind = "content"
         THEN <<Head(out).src>> \o ContentSources(Tail(out))
         ELSE ContentSources(Tail(out))

\* the source lines of the queued Events, in queue order
RECURSIVE QueueSources(_)
QueueSources(q) ==
    IF q = <<>> THEN <<>>
    ELSE IF Head(q).end THEN QueueSources(Tail(q))
         ELSE <<Head(q).src>> \o QueueSources(Tail(q))

C11_RunTerminates == Running(1) ~> ~Running(1)

\* a call of stop_session has ended
Stopped(k) == stopper[k].pc \in {"done", "raised"}

\* C12: once stop_session(sid) has ended, the backing tool of every
\* create_session call that was in flight for sid at the call has been
\* terminated or killed.
C12_StopCancels ==
    \A k \in Stoppers :
        Stopped(k) =>
            \A c \in stopper[k].in_flight :
                call[c].process.tool \in {"terminated", "killed"}

NoneRunning(b, sid) ==
    \/ ~Registered(b[1], sid)
    \/ b[2][b[1][sid]].process = "none"
    \/ ~Alive(b[2][b[1][sid]])

\* C14: a call of stop_session(sid) made when no process is running for sid
\* ends without an error and leaves the entry and the handle of every other
\* session as they were; when sid has no handle the registry and all handles
\* are unchanged.
C14_IdleStopSafe ==
    \A k \in Stoppers :
        (Stopped(k) /\ NoneRunning(stopper[k].before, stopper[k].session_id)) =>
            LET sid == stopper[k].session_id
                b == stopper[k].before
                a == stopper[k].after
            IN  /\ stopper[k].error = NoException
                /\ DOMAIN a[1] \subseteq DOMAIN b[1]
                /\ \A x \in DOMAIN b[1] \ {sid} :
                      /\ Registered(a[1], x)
                      /\ a[1][x] = b[1][x]
                      /\ a[2][x] = b[2][x]
                /\ ~Registered(b[1], sid) => a = b

\* C14 witness: two calls of stop_session for an id without a handle have
\* ended while another session holds a handle with a live tool.
C14_Witness ==
    /\ \A k \in Stoppers :
          /\ Stopped(k)
          /\ stopper[k].session_id = "s1"
          /\ ~Registered(stopper[k].before[1], "s1")
    /\ Registered(processes, "s2")
    /\ Alive(handles["s2"])

\* create_non_streaming_response has returned a response
Responded == agg.pc = "done" /\ ~agg.response.raised

\* C15: the content of every response is non-empty.
C15_ContentNonEmpty == Responded => agg.response.content # <<>>

\* the text an assistant message carries: a bare string, or the texts of the
\* text parts of a list
TextsOf(msg) ==
    IF msg.type # "assistant" \/ msg.message.kind # "dict" THEN <<>>
    ELSE IF msg.message.content.kind = "str" THEN <<msg.message.content.str>>
    ELSE IF msg.message.content.kind = "list"
         THEN LET ps == msg.message.content.parts
                  F[i \in 0..Len(ps)] ==
                      IF i = 0 THEN <<>>
                      ELSE IF ps[i].type = "text" THEN Append(F[i - 1], ps[i].text)
                      ELSE F[i - 1]
              IN  F[Len(ps)]
    ELSE <<>>

\* the texts of all messages, in encounter order
AllTexts(messages) ==
    LET F[i \in 0..Len(messages)] ==
            IF i = 0 THEN <<>> ELSE F[i - 1] \o TextsOf(messages[i])
    IN  F[Len(messages)]

\* a text that is not only whitespace
HasText(t) == \E i \in 1..Len(t) : t[i] \notin Whitespace

\* the concatenation of seq[1], sep, seq[2], sep, ..., seq[n]
RECURSIVE Joined(_, _)
Joined(seq, sep) ==
    IF seq = <<>> THEN <<>>
    ELSE IF Len(seq) = 1 THEN seq[1]
    ELSE seq[1] \o sep \o Joined(Tail(seq), sep)

\* the messages hold a text that is not only whitespace
SomeText == \E i \in 1..Len(AllTexts(agg.messages)) : HasText(AllTexts(agg.messages)[i])

\* C15 witness: a response to messages without any text, and to whitespace.
C15_Witness ==
    /\ Responded
    /\ ~SomeText
    /\ \E i \in 1..Len(agg.messages) : agg.messages[i] = EvBlank

\* C16 as stated: the content is the texts of the assistant messages, in
\* encounter order, joined by a newline.
C16_JoinsTexts ==
    (Responded /\ SomeText) =>
        agg.response.content = Joined(SelectSeq(AllTexts(agg.messages), HasText), <<"\n">>)

\* the text with the whitespace at both ends removed
Trimmed(t) ==
    LET first == CHOOSE i \in 1..Len(t) :
                    t[i] \notin Whitespace /\ \A j \in 1..(i - 1) : t[j] \in Whitespace
        lst == CHOOSE i \in 1..Len(t) :
                    t[i] \notin Whitespace /\ \A j \in (i + 1)..Len(t) : t[j] \in Whitespace
    IN  SubSeq(t, first, lst)

\* C16 amended: the content is the texts of the assistant messages that are
\* not only whitespace, each trimmed of the whitespace at its ends, in
\* encounter order, joined by a newline.
C16_JoinsTrimmedTexts ==
    (Responded /\ SomeText) =>
        LET texts == SelectSeq(AllTexts(agg.messages), HasText) IN
        agg.response.content = Joined([i \in 1..Len(texts) |-> Trimmed(texts[i])], <<"\n">>)

\* C16 witness: a response to a bare-string text with whitespace at its ends
\* and a list with text parts, a part of another type and a blank part.
C16_Witness ==
    /\ Responded
    /\ agg.messages = <<EvSpaced, EvUser, EvList>>

\* the number of maximal runs of non-whitespace characters
WordCount(t) ==
    Cardinality({i \in 1..Len(t) :
                    t[i] \notin Whitespace /\ (i = 1 \/ t[i - 1] \in Whitespace)})

\* C17: prompt_tokens is 10, completion_tokens is the number of words of the
\* content and total_tokens is their sum; one assistant message "Hello!" and a
\* result give the content "Hello!" and total_tokens 11.
C17_Usage ==
    Responded =>
        /\ agg.response.prompt_tokens = 10
        /\ agg.response.completion_tokens = WordCount(agg.response.content)
        /\ agg.response.total_tokens =
              agg.response.prompt_tokens + agg.response.completion_tokens
        /\ agg.messages = <<EvHello, LnResult.obj>> =>
              /\ agg.response.content = <<"H", "e", "l", "l", "o", "!">>
              /\ agg.response.total_tokens = 11

\* C17 witness: the response to "Hello!" and a result.
C17_Witness == Responded /\ agg.messages = <<EvHello, LnResult.obj>>

\* the last call on the parser was parse_line on a line of this kind
Parsed(kind) == parser.op = "parse" /\ parser.line.kind = kind

\* C18: parse_line on a line that is not JSON returns a "text" Event that
\* holds the raw line and leaves the state of the parser as it was.
C18_MalformedGivesText ==
    Parsed("garbage") =>
        /\ parser.result.kind = "event"
        /\ parser.result.data.type = "text"
        /\ parser.state = parser.before

\* C19 as stated: parse_line returns an Event for every line that is JSON,
\* and None only for blank lines.
C19_JsonGivesEvent ==
    /\ (Parsed("json") \/ Parsed("scalar")) => parser.result.kind = "event"
    /\ (parser.op = "parse" /\ parser.result = None) => parser.line.kind = "blank"

\* the JSON value is an object that fits the declared fields of ClaudeMessage
FitsSchema(line) ==
    /\ line.kind = "json"
    /\ line.data.type # ""
    /\ line.data.message \in {"absent", "dict"}
    /\ line.data.usage \in {"absent", "ok"}

\* C19 amended: parse_line returns the Event for every JSON line that is an
\* object fitting the declared fields, and None for a JSON line that is not
\* and for a blank line.
C19_ValidJsonGivesEvent ==
    /\ (parser.op = "parse" /\ FitsSchema(parser.line)) =>
          parser.result = Message(parser.line.data)
    /\ (parser.op = "parse" /\ parser.line.kind \in {"json", "scalar"}
           /\ ~FitsSchema(parser.line)) => parser.result = None
    /\ Parsed("blank") => parser.result = None

\* C19 witness: a JSON object without "type" was parsed after a JSON object
\* that gave an Event.
C19_Witness ==
    /\ Parsed("json")
    /\ parser.line.data.type = ""
    /\ parser.state.session_id = "t1"

\* C20: a call of parse_line changes neither a session id nor a model that
\* is set, and sets each that is unset from an Event that reports it.
C20_FirstReporterWins ==
    [][parser'.op = "parse" =>
         /\ parser.state.session_id # "" =>
               parser'.state.session_id = parser.state.session_id
         /\ parser.state.model # "" => parser'.state.model = parser.state.model
         /\ (parser.state.session_id = "" /\ parser'.result.kind = "event") =>
               parser'.state.session_id = parser'.result.data.session_id
         /\ (parser.state.model = "" /\ parser'.result.kind = "event") =>
               parser'.state.model = parser'.result.data.model]_vars

\* C20 witness: session id and model come from different Events, and the
\* last Event reported another session id and another model.
C20_Witness ==
    /\ parser.op = "parse"
    /\ parser.result.kind = "event"
    /\ parser.state.session_id = "t1"
    /\ parser.state.model = "m1"
    /\ parser.result.data.session_id = "t2"
    /\ parser.result.data.model = "m2"

\* C21: a call of parse_line that returns an Event has added the
\* input_tokens and output_tokens of its usage to total_tokens and its cost to
\* total_cost, and one to message_count exactly for a user or assistant
\* Event; no call of parse_line lowers a total; the summary holds the totals
\* of the parser.
C21_RunningTotals ==
    /\ (parser.op = "parse" /\ parser.result.kind = "event") =>
          LET d == parser.result.data IN
          /\ parser.state.total_tokens =
                parser.before.total_tokens
                  + (IF d.usage = "ok" THEN d.input_tokens + d.output_tokens ELSE 0)
          /\ parser.state.total_cost = parser.before.total_cost + d.cost_usd
          /\ parser.state.message_count =
                parser.before.message_count
                  + (IF d.type = "user" \/ d.type = "assistant" THEN 1 ELSE 0)
    /\ parser.op = "parse" =>
          /\ parser.state.total_tokens >= parser.before.total_tokens
          /\ parser.state.total_cost >= parser.before.total_cost
          /\ parser.state.message_count >= parser.before.message_count
    /\ parser.op = "summary" =>
          /\ parser.summary.total_tokens = parser.state.total_tokens
          /\ parser.summary.total_cost = parser.state.total_cost
          /\ parser.summary.message_count = parser.state.message_count
          /\ parser.summary.session_id = parser.state.session_id
          /\ parser.summary.model = parser.state.model

\* C21 witness: a summary taken after an assistant Event with usage and a
\* result Event with a cost.
C21_Witness ==
    /\ parser.op = "summary"
    /\ parser.summary.total_tokens = 3
    /\ parser.summary.total_cost = 3
    /\ parser.summary.message_count = 1

\* C22: get(id) returns the in-memory record when id is in the active index
\* and leaves the index as it is; on a miss, exactly when the store has a row
\* for id that is marked active, it returns a record with the row's counters
\* and timestamps and inserts that record into the index; otherwise it
\* returns null and leaves the index unchanged.
C22_GetResolves ==
    [][(last'.op = "get" /\ last' # last) =>
          LET id == last'.id
              rec == last'.rec
          IN  IF id \in DOMAIN active_sessions
              THEN /\ last'.ret = "hit"
                   /\ rec = active_sessions[id]
                   /\ active_sessions' = active_sessions
              ELSE IF id \in DOMAIN db /\ db[id].is_active
              THEN /\ last'.ret = "rehydrated"
                   /\ rec.message_count = db[id].message_count
                   /\ rec.total_tokens = db[id].total_tokens
                   /\ rec.total_cost = db[id].total_cost
                   /\ rec.created_at = db[id].created_at
                   /\ rec.updated_at = db[id].updated_at
                   /\ DOMAIN active_sessions' = DOMAIN active_sessions \cup {id}
                   /\ active_sessions'[id] = rec
                   /\ \A x \in DOMAIN active_sessions :
                         active_sessions'[x] = active_sessions[x]
              ELSE /\ last'.ret = "null"
                   /\ rec = NoRecord
                   /\ active_sessions' = active_sessions]_vars

\* C22 witness: a get that missed the index and rehydrated a session whose
\* row carries tokens, a cost and a message.
C22_Witness ==
    /\ last.op = "get"
    /\ last.ret = "rehydrated"
    /\ last.rec.total_tokens = 1
    /\ last.rec.total_cost = 2
    /\ last.rec.message_count = 1
    /\ last.id \in DOMAIN active_sessions

\* C23: update on a resolvable session adds the tokens and the cost to the
\* session's counters and sets updated_at to the time of the update; with
\* message content it counts one more message and forwards one turn to the
\* store, without it the session's message count, in the index and in the
\* store's row, stays as it was and no turn is forwarded; update on an id that
\* get cannot resolve changes no session.
C23_UpdateCounts ==
    [][(last'.op = "update" /\ last' # last) =>
          LET id == last'.id
              a == last'.args
              before == last'.rec
              n == IF a.content # <<>> THEN 1 ELSE 0
          IN  IF last'.ret = "null"
              THEN /\ active_sessions' = active_sessions
                   /\ db' = db
                   /\ db_messages' = db_messages
              ELSE /\ id \in DOMAIN active_sessions'
                   /\ active_sessions'[id].total_tokens = before.total_tokens + a.tokens
                   /\ active_sessions'[id].total_cost = before.total_cost + a.cost
                   /\ active_sessions'[id].updated_at = now
                   /\ active_sessions'[id].updated_at >= before.updated_at
                   /\ active_sessions'[id].message_count = before.message_count + n
                   /\ db_messages'[id] = db_messages[id] + n
                   /\ db'[id].message_count = db[id].message_count + n
                   /\ \A x \in DOMAIN active_sessions \ {id} :
                         /\ x \in DOMAIN active_sessions'
                         /\ active_sessions'[x] = active_sessions[x]
                   /\ \A x \in SessionIds \ {id} : db_messages'[x] = db_messages[x]]_vars

\* the in-memory half of C23: what update does to the record in the index and
\* to the turns of the store
C23_InMemory ==
    [][(last'.op = "update" /\ last' # last) =>
          LET id == last'.id
              a == last'.args
              before == last'.rec
              n == IF a.content # <<>> THEN 1 ELSE 0
          IN  IF last'.ret = "null"
              THEN /\ active_sessions' = active_sessions
                   /\ db' = db
                   /\ db_messages' = db_messages
              ELSE /\ active_sessions'[id].total_tokens = before.total_tokens + a.tokens
                   /\ active_sessions'[id].total_cost = before.total_cost + a.cost
                   /\ active_sessions'[id].updated_at = now
                   /\ active_sessions'[id].message_count = before.message_count + n
                   /\ db_messages'[id] = db_messages[id] + n]_vars

\* C24: end(id) on an id that is absent from the active index raises nothing
\* and leaves the index, the store and every other session as they are; end on
\* a present id removes only that id; after any end the id is absent, so a
\* second end(id) is the no-op and end(id); end(id) leaves the state of a
\* single end(id).
C24_EndIdempotent ==
    /\ [](last.op = "end" => last.id \notin DOMAIN active_sessions)
    /\ [][(last'.op = "end" /\ last' # last) =>
            /\ last'.ret \in {"ended", "noop"}
            /\ db' = db
            /\ db_messages' = db_messages
            /\ IF last'.id \in DOMAIN active_sessions
               THEN /\ last'.ret = "ended"
                    /\ DOMAIN active_sessions' = DOMAIN active_sessions \ {last'.id}
                    /\ \A x \in DOMAIN active_sessions' :
                          active_sessions'[x] = active_sessions[x]
               ELSE /\ last'.ret = "noop"
                    /\ active_sessions' = active_sessions
                    /\ ended' = ended]_vars

\* C24 witness: the second end of an id, a no-op, while another session is in
\* the index.
C24_Witness ==
    /\ last.op = "end"
    /\ last.ret = "noop"
    /\ last.id \in ended
    /\ DOMAIN active_sessions # {}

\* every session in the index was updated no earlier than it was created
C25_Timestamps ==
    \A id \in DOMAIN active_sessions :
        active_sessions[id].updated_at >= active_sessions[id].created_at

\* C25: every session in the active index has updated_at >= created_at, and
\* over any step that leaves a session in the index its token and cost counters
\* do not decrease.
C25_CountersGrow ==
    /\ [](\A id \in DOMAIN active_sessions :
            active_sessions[id].updated_at >= active_sessions[id].created_at)
    /\ [][\A id \in DOMAIN active_sessions \cap DOMAIN active_sessions' :
            /\ active_sessions'[id].total_tokens >= active_sessions[id].total_tokens
            /\ active_sessions'[id].total_cost >= active_sessions[id].total_cost]_vars

\* after any create the session is in the index and active, whether or not
\* the store persisted the row
C28_Registered ==
    last.op = "create" =>
        /\ last.id \in DOMAIN active_sessions
        /\ active_sessions[last.id].is_active

\* C28: after create the session is present and active in the index, also
\* when the store's persist call failed, and create has returned to its
\* caller without an error.
C28_CreateNeverFails ==
    last.op = "create" =>
        /\ last.id \in DOMAIN active_sessions
        /\ active_sessions[last.id].is_active
        /\ last.ret = "ok"

\* no get or update call is in flight
Quiescent == \A t \in Tasks : conc.task[t].pc = "idle"

\* C26: under any interleaving of concurrent get, update and end calls no
\* increment of an update is lost: once the calls have returned, the tokens
\* and the cost of every record in the active index are the sums of the
\* increments the update calls applied to the session.
C26_NoLostUpdate ==
    Quiescent =>
        \A id \in DOMAIN active_sessions :
            /\ active_sessions[id].total_tokens = conc.applied[id].tokens
            /\ active_sessions[id].total_cost = conc.applied[id].cost

\* C27: a chat request with an empty messages list is rejected with the
\* validation error code missing_messages, and a request with messages none of
\* which has role user with missing_user_message; a rejected request does not
\* invoke the backing tool: the invocation count is what it was, 0 when no
\* request was accepted before.
C27_RejectedUninvoked ==
    facade.op = "chat" =>
        /\ facade.messages = <<>> =>
               facade.status = 400 /\ facade.code = "missing_messages"
        /\ (facade.messages # <<>>
              /\ \A i \in 1..Len(facade.messages) : facade.messages[i] # "user") =>
               facade.status = 400 /\ facade.code = "missing_user_message"
        /\ facade.status = 400 => facade.invocations = facade.before
        /\ (facade.status = 400 /\ facade.before = 0) => facade.invocations = 0

\* C27 witness: a first request with a system message only, rejected, and the
\* tool never invoked.
C27_Witness ==
    /\ facade.op = "chat"
    /\ facade.messages = <<"system">>
    /\ facade.code = "missing_user_message"
    /\ facade.invocations = 0

\* the credentials a request carries
Carried(request) ==
    ((IF request.authorization.scheme = "Bearer" THEN {request.authorization.token}
      ELSE {}) \cup {request.x_api_key, request.query}) \ {""}

\* C29: a request on a non-public path that the middleware passes on has a
\* client identity in its request state; when authentication is required it
\* is passed on only if it carried a key of the configured key set and the
\* rate limiter admitted it, and is otherwise answered with 401 or 429 and
\* does not reach the core.
C29_AuthGate ==
    (auth.op = "request" /\ auth.request.path \notin public_paths) =>
        /\ auth.reached => auth.state.client_id \notin {Unset, ""}
        /\ auth.require_auth =>
              /\ auth.reached =>
                    /\ Carried(auth.request) \cap auth.api_keys # {}
                    /\ auth.allowed = "yes"
              /\ ~auth.reached => auth.status \in {401, 429}
              /\ auth.status \in {401, 429} => ~auth.reached

\* C29 witness: with authentication required, a request on a non-public path
\* with a configured key is passed on under that key's identity.
C29_Witness ==
    /\ auth.op = "request"
    /\ auth.require_auth
    /\ auth.request.path = "/v1/sessions"
    /\ auth.reached
    /\ auth.state.client_id = "k1"
    /\ auth.allowed = "yes"

\* with authentication required, a request with a configured key is turned
\* away by the rate limiter
C29_Limited ==
    /\ auth.op = "request"
    /\ auth.status = 429
    /\ Carried(auth.request) \cap auth.api_keys # {}

\* the output lines that parse to an object with a non-empty session id
SidLines(lines) ==
    {i \in 1..Len(lines) : lines[i].kind = "json" /\ lines[i].obj.session_id # ""}

C30_KeepsCallerId ==
    /\ call[1].pc = "returned"
    /\ SidLines(call[1].process.output_lines) = {}
    /\ Len(call[1].process.output_lines) > 1
    /\ call[1].process.session_id = "s1"

\* C31: stop sends terminate first and kill, if at all, after it; kill is
\* sent only when the wait lasted the whole grace period without the process
\* ending, never when the process ended within it; and when stop has returned
\* the process object has is_running false and no process reference.
C31_StopEscalates ==
    \A k \in Stoppers :
        /\ stopper[k].sent \in {<<>>, <<"terminate">>, <<"terminate", "kill">>}
        /\ stopper[k].sent = <<"terminate", "kill">> =>
              /\ stopper[k].waited = grace_period
              /\ stopper[k].kill # "none"
        /\ (Stopped(k) /\ stopper[k].waited < grace_period) =>
              /\ stopper[k].sent # <<"terminate", "kill">>
              /\ stopper[k].kill = "none"
        /\ (stopper[k].pc = "done" /\ stopper[k].session_id \in DOMAIN stopper[k].before[1]) =>
              LET o == stopper[k].before[1][stopper[k].session_id] IN
              /\ ~handles[o].is_running
              /\ handles[o].process = "none"

\* C31 witness: a stop that sent terminate, waited the grace period, killed
\* the process and returned.
C31_Witness ==
    \E k \in Stoppers :
        /\ stopper[k].pc = "done"
        /\ stopper[k].sent = <<"terminate", "kill">>
        /\ stopper[k].waited = grace_period
        /\ handles[stopper[k].session_id].tool = "killed"

\* a stop whose process ended within the grace period, never sent kill
C31_Graceful ==
    \E k \in Stoppers :
        /\ stopper[k].pc = "done"
        /\ stopper[k].sent = <<"terminate">>
        /\ stopper[k].waited = grace_period - 1
        /\ handles[stopper[k].session_id].tool = "terminated"

\* seq begins with prefix
IsPrefix(prefix, seq) ==
    Len(prefix) <= Len(seq) /\ SubSeq(seq, 1, Len(prefix)) = prefix

\* the last n elements of seq, all of them when it has fewer
Last_n(seq, n) ==
    [i \in 1..(IF n < Len(seq) THEN n ELSE Len(seq)) |->
        seq[Len(seq) - (IF n < Len(seq) THEN n ELSE Len(seq)) + i]]

\* the history of every session is the messages added to it, in call order
C32_Ordered ==
    \A sid \in SessionIds : History(sid) = conversations.added[sid]

\* every step other than a clear of the session keeps the turns a history has
C32_AppendOnly ==
    [][\A sid \in SessionIds :
          (conversations'.op = "clear" /\ conversations'.sid = sid)
          \/ LET before == History(sid)
                  after == IF sid \in DOMAIN conversations'.conversation_history
                           THEN conversations'.conversation_history[sid] ELSE <<>>
              IN  IsPrefix(before, after)]_vars

\* C32: the history of a session is exactly the turns added to it, in call
\* order, and get_conversation_history(limit) returns its last limit turns in
\* that order (the whole history when no limit is given).
C32_HistoryOrdered ==
    /\ \A sid \in SessionIds : History(sid) = conversations.added[sid]
    /\ conversations.op = "get" =>
          conversations.result =
            IF conversations.limit.given
            THEN Last_n(History(conversations.sid), conversations.limit.n)
            ELSE History(conversations.sid)

\* C33: a sweep leaves every session whose updated_at is within the idle
\* timeout at the time of the sweep in the active index, with its record
\* (counters, timestamps, active flag) as it was.
C33_SweepKeepsFresh ==
    [][(last'.op = "sweep" /\ last' # last) =>
          \A id \in DOMAIN active_sessions :
              now - active_sessions[id].updated_at <= session_timeout =>
                  /\ id \in DOMAIN active_sessions'
                  /\ active_sessions'[id] = active_sessions[id]
                  /\ active_sessions'[id].is_active]_vars

\* C33 witness: a sweep that ended an idle session and kept one, with tokens,
\* that was updated exactly the timeout ago.
C33_Witness ==
    /\ last.op = "sweep"
    /\ last.stale # {}
    /\ \E id \in DOMAIN active_sessions :
          /\ now - active_sessions[id].updated_at = session_timeout
          /\ active_sessions[id].total_tokens > 0
          /\ active_sessions[id].is_active

\* C34: for the same messages, the texts of the content deltas of the stream,
\* in order, are the parts joined into the non-streaming content.
C34_SameTexts ==
    (agg.pc = "done" /\ ~agg.response.raised) =>
        DeltaTexts(agg.messages, 0) = ContentParts(agg.messages).parts

\* the counters of a SessionInfo and of a row of the store are the same
SameCounters(info, row) ==
    /\ info.message_count = row.message_count
    /\ info.total_tokens = row.total_tokens
    /\ info.total_cost = row.total_cost

\* C35: a create whose row is committed, and an update on a session whose
\* resolved record agreed with its row, leave the in-memory message_count,
\* total_tokens and total_cost of the session equal to those of its row.
C35_StoreAgrees ==
    [][(/\ last' # last
        /\ \/ last'.op = "create" /\ last'.ret = "ok"
           \/ /\ last'.op = "update" /\ last'.ret # "null"
              /\ last'.id \in DOMAIN db
              /\ SameCounters(last'.rec, db[last'.id])) =>
          /\ last'.id \in DOMAIN active_sessions'
          /\ last'.id \in DOMAIN db'
          /\ SameCounters(active_sessions'[last'.id], db'[last'.id])]_vars

\* C36: the registry of active streams tracks the runs in progress exactly:
\* the count is the number of runs in progress, the session id of every run in
\* progress has an entry, and every entry belongs to a run in progress.
C36_RegistryExact ==
    /\ get_active_stream_count = Cardinality(InProgress)
    /\ \A g \in InProgress :
          /\ streaming.stream[g].session_id \in DOMAIN streaming.active_streams
          /\ streaming.active_streams[streaming.stream[g].session_id] = g
    /\ \A sid \in DOMAIN streaming.active_streams :
          streaming.active_streams[sid] \in InProgress

\* the part of C36 that holds: an entry is that of a run in progress with that
\* session id, and there are never more entries than runs in progress
C36_NoStaleEntry ==
    /\ get_active_stream_count <= Cardinality(InProgress)
    /\ \A sid \in DOMAIN streaming.active_streams :
          /\ streaming.active_streams[sid] \in InProgress
          /\ streaming.stream[streaming.active_streams[sid]].session_id = sid

\* the indices of the non-blank lines, in order
NonBlankLines(lines) ==
    LET F[i \in 0..Len(lines)] ==
            IF i = 0 THEN <<>>
            ELSE IF LineBlank(lines[i]) THEN F[i - 1]
            ELSE Append(F[i - 1], i)
    IN  F[Len(lines)]

\* the queue holds one item for every non-blank line, in order, and then the
\* end signal as its last item, and no other end signal
EventsThenEnd(q, lines) ==
    /\ q # <<>>
    /\ q[Len(q)] = EndSignal
    /\ \A i \in 1..(Len(q) - 1) : ~q[i].end
    /\ [i \in 1..(Len(q) - 1) |-> q[i].src] = NonBlankLines(lines)

\* C37: after the backing tool exited with status 0, and before anything is
\* taken from it, the output queue holds the Events of all non-blank stdout
\* lines followed by exactly one end signal, its last item.
C37_QueueComplete ==
    (/\ call[1].pc \in {"returned", "raised"}
     /\ call[1].process.returncode = 0
     /\ conv.pc = "init") =>
        EventsThenEnd(call[1].process.output_queue,
                      OutputLines(call[1].process.stdout))

\* the part of C37 that holds: when start returned True the queue is complete
C37_ReturnedComplete ==
    (call[1].pc = "returned" /\ conv.pc = "init") =>
        /\ call[1].process.returncode = 0
        /\ EventsThenEnd(call[1].process.output_queue,
                         OutputLines(call[1].process.stdout))

\* the members of a sequence
Range(q) == {q[i] : i \in DOMAIN q}

\* q without the members of a set
RECURSIVE Without(_, _)
Without(q, set) ==
    IF q = <<>> THEN <<>>
    ELSE IF Head(q) \in set THEN Without(Tail(q), set)
    ELSE <<Head(q)>> \o Without(Tail(q), set)

\* the chunks handed to the consumer and those still buffered are the chunks
\* appended and not displaced, in the order they were appended
C38_InOrder ==
    chunks.delivered \o chunks.buffer = Without(chunks.added, chunks.displaced)

\* C38: with a consumer that goes on iterating get_chunks, every add_chunk
\* that has to wait for the lock completes, every chunk in the buffer is
\* handed to the consumer unless overflow displaces it, and chunks are handed
\* over in the order they were appended.
C38_Progress ==
    /\ \A a \in Adders :
          (chunks.adder[a].pc = "waiting") ~> (chunks.adder[a].pc = "done")
    /\ \A c \in 1..MaxChunks :
          (c \in Range(chunks.buffer)) ~>
              (c \in Range(chunks.delivered) \/ c \in chunks.displaced)
    /\ []C38_InOrder

\* C38 witness: calls of add_chunk found the lock held by a consumer that was
\* holding a chunk and by one that was sleeping on the empty buffer, all
\* calls completed, and the chunks that were not displaced were delivered.
C38_Witness ==
    /\ chunks.met = {"holding", "sleeping"}
    /\ chunks.issued = MaxChunks
    /\ \A a \in Adders : chunks.adder[a].pc = "done"
    /\ chunks.displaced # {}
    /\ chunks.buffer = <<>>
    /\ Len(chunks.delivered) >= 2

\* the key the rate limiter is asked about for a request
ClientId(request) == IF request.client THEN extract_api_key(request) ELSE "anonymous"

\* the step is a request on which the rate limiter was asked
Asked == auth'.clock = auth.clock /\ auth' # auth /\ auth'.allowed # "unasked"

\* the requests granted to a key in the window before time t
GrantedBefore(key, t) == Len(Recent(Entry(auth.store, key).requests, t))

\* C39: is_allowed grants a request exactly when the key has had fewer than
\* burst and fewer than requests_per_minute granted requests in the window
\* before it, and a call for one key leaves the state of every other key.
C39_GrantsUnderLimits ==
    [][Asked =>
          LET key == ClientId(auth'.request)
              granted == GrantedBefore(key, auth.clock)
          IN  /\ (auth'.allowed = "yes") <=>
                     (granted < burst /\ granted < requests_per_minute)
              /\ \A k \in DOMAIN auth.store \ {key} :
                     k \in DOMAIN auth'.store /\ auth'.store[k] = auth.store[k]]_vars

\* the parts of C39 that hold: a granted request found the key under both
\* limits, and a call for one key leaves the state of every other key
C39_GrantedWasUnder ==
    [][Asked =>
          LET key == ClientId(auth'.request)
              granted == GrantedBefore(key, auth.clock)
          IN  /\ (auth'.allowed = "yes") =>
                     (granted < burst /\ granted < requests_per_minute)
              /\ DOMAIN auth'.store = DOMAIN auth.store \cup {key}
              /\ \A k \in DOMAIN auth.store \ {key} : auth'.store[k] = auth.store[k]]_vars

\* the concatenation of the chunks
RECURSIVE Concat(_)
Concat(out) == IF out = <<>> THEN <<>> ELSE Head(out) \o Concat(Tail(out))

\* C40: the chunks yielded so far and the buffer are the input pulled so
\* far, and when the run is over the concatenation of the yielded chunks is
\* the concatenation of the inputs; no chunk is empty.
C40_Preserves ==
    /\ Concat(adaptive.out) \o adaptive.buffer = adaptive.input
    /\ adaptive.pc = "done" => Concat(adaptive.out) = adaptive.input
    /\ \A i \in DOMAIN adaptive.out : adaptive.out[i] # <<>>

\* C40 witness: a finished run whose callback answered both ways, that
\* yielded chunks of different sizes cut off the buffer and a remainder.
C40_Witness ==
    /\ adaptive.pc = "done"
    /\ adaptive.answers = BOOLEAN
    /\ Len(adaptive.out) >= 3
    /\ Len(adaptive.out[1]) # Len(adaptive.out[2])
    /\ Len(adaptive.out[Len(adaptive.out)]) < min_chunk_size
    /\ adaptive.pieces = MaxPieces

====
